---- MODULE Spec2Model ----
(***************************************************************************)
(* The worksheet generation pipeline of the GenEnglish application:        *)
(* withRetry, generateImage, generateAudioBase64 and generateExercises of  *)
(* the Gemini service, and App.handleGenerate, which starts a generation   *)
(* and installs its result.                                                *)
(*                                                                         *)
(* A JavaScript string is a sequence of one-character strings.  A value    *)
(* that is undefined, null or "" where the code only tests truthiness is   *)
(* the empty sequence, or the marker the variable's comment names.         *)
(***************************************************************************)
EXTENDS Integers, Sequences, FiniteSets, TLC

VARIABLES
    preferences,    \* App: the UserPreferences, as they are when a generation starts
    loadingStatus,  \* App: LoadingStatus
    content,        \* App: the displayed GeneratedContent (NoContent for null)
    error,          \* App: the displayed error message ("" for null)
    pc,             \* generateExercises: where the call stands
    textRetry,      \* withRetry frame of the text generation request
    response,       \* the sections the model returned, as parsed
    sections,       \* generateExercises: content.sections, mutated in place
    imageTasks,     \* imageGenerationPromises, in push order
    audioTasks,     \* audioTasks, in push order
    audioLoop,      \* the audio loop's locals: i, retryCount, audioData, frame
    genResult,      \* how generateExercises ended: kind, content, message
    probe,          \* a withRetry call of its own (retries, fn drawn freely)
    vocab,          \* a selectRandomVocabulary call of its own
    assessment,     \* an evaluatePronunciation call of its own
    submission,     \* App, student mode: the save modal, its timers, the sends
    repair,         \* a validation pass over one question, on its own
    calls,          \* App, teacher mode: the asynchronous calls in flight
    form,           \* InputForm: questionCountInput, questionCountError
    session         \* App: the answers to the displayed worksheet, its score

\* The variables of the generation pipeline and of the App around it.
pipelineVars ==
    <<preferences, loadingStatus, content, error, pc, textRetry, response, sections,
      imageTasks, audioTasks, audioLoop, genResult>>

\* The variables of the pipeline that a student's submission leaves alone.
generationVars ==
    <<preferences, content, error, pc, textRetry, response, sections,
      imageTasks, audioTasks, audioLoop, genResult>>

\* The variables of one generateExercises call.
callVars ==
    <<pc, textRetry, response, sections, imageTasks, audioTasks, audioLoop, genResult>>

\* The variables of the parts exercised on their own.
unitVars == <<probe, vocab, assessment, submission, repair, calls, form, session>>

vars == <<pipelineVars, unitVars>>

----------------------------------------------------------------------------
(* Strings *)

\* A string of n copies of the character c.
Rep(c, n) == [i \in 1..n |-> c]

Range(s) == {s[i] : i \in 1..Len(s)}

\* String.prototype.toLowerCase, on the alphabet the inputs are drawn from.
ToLowerChar(c) ==
    CASE c = "A" -> "a"
      [] c = "B" -> "b"
      [] c = "C" -> "c"
      [] OTHER -> c

ToLowerCase(s) == [i \in 1..Len(s) |-> ToLowerChar(s[i])]

IsSpace(c) == c = " "

RECURSIVE TrimStart(_)
TrimStart(s) ==
    IF s # <<>> /\ IsSpace(Head(s)) THEN TrimStart(Tail(s)) ELSE s

RECURSIVE TrimEnd(_)
TrimEnd(s) ==
    IF s # <<>> /\ IsSpace(s[Len(s)])
    THEN TrimEnd(SubSeq(s, 1, Len(s) - 1))
    ELSE s

\* String.prototype.trim
Trim(s) == TrimEnd(TrimStart(s))

\* const normalize = (s) => s.trim().toLowerCase()
normalize(s) == ToLowerCase(Trim(s))

\* s.startsWith(p)
StartsWith(s, p) == Len(p) <= Len(s) /\ SubSeq(s, 1, Len(p)) = p

\* parts.join(' ')
RECURSIVE Join(_)
Join(parts) ==
    IF parts = <<>> THEN <<>>
    ELSE IF Len(parts) = 1 THEN parts[1]
    ELSE parts[1] \o <<" ">> \o Join(Tail(parts))

----------------------------------------------------------------------------
(* Errors thrown by the SDK.                                               *)
(* code and status: "none" when falsy or absent, "n503" and "n401" for the *)
(* numbers 503 and 401, "UNAVAILABLE" for that status string.  message: a  *)
(* sequence of phrases, <<>> when falsy or absent; a message includes a    *)
(* substring the code looks for iff that phrase is one of them.  inner is  *)
(* error.error, with the same three fields.                                *)

NoInner == [code |-> "none", status |-> "none", message |-> <<>>]

MkError(c, s, m) == [code |-> c, status |-> s, message |-> m, inner |-> NoInner]

NestedError(c, s, m) ==
    [code |-> "none", status |-> "none", message |-> <<>>,
     inner |-> [code |-> c, status |-> s, message |-> m]]

\* new Error(message)
NewError(message) == MkError("none", "none", message)

\* No error: the value of a variable that holds none.
NoError == NewError(<<>>)

\* The errors a text request may fail with.
ErrPool ==
    { MkError("n503", "none", <<>>),
      MkError("none", "n503", <<"other">>),
      MkError("none", "UNAVAILABLE", <<>>),
      MkError("none", "none", <<"503">>),
      MkError("none", "none", <<"overloaded">>),
      MkError("none", "none", <<"Service Unavailable">>),
      MkError("none", "none", <<"UNAVAILABLE">>),
      MkError("n401", "none", <<"other">>),
      MkError("none", "n401", <<>>),
      MkError("none", "none", <<"API_KEY">>),
      MkError("n401", "none", <<"overloaded">>),
      MkError("none", "none", <<"503", "API_KEY">>),
      MkError("none", "none", <<"other">>),
      MkError("none", "none", <<>>),
      NestedError("n503", "none", <<>>),
      NestedError("none", "UNAVAILABLE", <<"other">>),
      NestedError("none", "none", <<"overloaded">>),
      NestedError("n401", "none", <<"other">>) }

\* The errors an image or audio request may fail with: generateImage and
\* generateAudioBase64 read nothing of them but withRetry's isRetryable.
EnrichmentErrPool ==
    { MkError("n503", "none", <<>>),
      MkError("none", "none", <<"overloaded">>),
      MkError("none", "none", <<"other">>) }

\* a || b on codes and statuses
OrElse(a, b) == IF a # "none" THEN a ELSE b

\* String.prototype.includes on a message
Includes(msg, phrase) == \E i \in 1..Len(msg) : msg[i] = phrase

NumberText(v) ==
    CASE v = "n503" -> <<"503">>
      [] v = "n401" -> <<"401">>
      [] v = "none" -> <<>>
      [] OTHER -> <<v>>

\* JSON.stringify(error): the text of every field that is set.
Stringify(e) ==
    NumberText(e.code) \o NumberText(e.status) \o e.message
    \o NumberText(e.inner.code) \o NumberText(e.inner.status) \o e.inner.message

\* withRetry's errorCode, errorStatus, errorMessage
RetryErrorCode(e) == OrElse(e.code, e.inner.code)
RetryErrorStatus(e) == OrElse(e.status, e.inner.status)
RetryErrorMessage(e) ==
    IF e.message # <<>> THEN e.message
    ELSE IF e.inner.message # <<>> THEN e.inner.message
    ELSE Stringify(e)

\* withRetry's isRetryable
IsRetryable(e) ==
    \/ RetryErrorCode(e) = "n503"
    \/ RetryErrorStatus(e) = "n503"
    \/ RetryErrorStatus(e) = "UNAVAILABLE"
    \/ Includes(RetryErrorMessage(e), "503")
    \/ Includes(RetryErrorMessage(e), "overloaded")
    \/ Includes(RetryErrorMessage(e), "Service Unavailable")
    \/ Includes(RetryErrorMessage(e), "UNAVAILABLE")

----------------------------------------------------------------------------
(* withRetry: one frame per call.  attempt is the loop counter, calls the  *)
(* number of times fn has been invoked, delays the backoff sleeps so far,  *)
(* st one of calling (fn in flight), sleeping (in the backoff timer),      *)
(* returned, thrown.  error is the catch block's error while the frame is  *)
(* in that block (sleeping) or has left by its throw.                      *)

RetryBaseDelay == 2000
RetryMaxDelay == 10000

Min(a, b) == IF a <= b THEN a ELSE b
Max(a, b) == IF a >= b THEN a ELSE b

RECURSIVE Pow2(_)
Pow2(n) == IF n = 0 THEN 1 ELSE 2 * Pow2(n - 1)

\* The delay, were it not capped.
RetryDelayUncapped(attempt) == RetryBaseDelay * Pow2(attempt)

\* Math.min(2000 * Math.pow(2, attempt), 10000)
RetryDelay(attempt) == Min(RetryBaseDelay * Pow2(attempt), RetryMaxDelay)

NoFrame ==
    [retries |-> 0, attempt |-> 0, calls |-> 0, delays |-> <<>>, st |-> "none",
     error |-> NoError]

\* Entering the loop with attempt = 0: fn is invoked.
WRStart(retries) ==
    [retries |-> retries, attempt |-> 0, calls |-> 1, delays |-> <<>>, st |-> "calling",
     error |-> NoError]

\* The catch block, were its test "attempt + 1 < retries".
WROnRejectOffByOne(w, e) ==
    IF IsRetryable(e) /\ w.attempt + 1 < w.retries
    THEN [w EXCEPT !.st = "sleeping", !.error = e,
                   !.delays = Append(@, RetryDelay(w.attempt))]
    ELSE [w EXCEPT !.st = "thrown", !.error = e]

\* The catch block, were its test "isRetryable" alone.
WROnRejectUnbounded(w, e) ==
    IF IsRetryable(e)
    THEN [w EXCEPT !.st = "sleeping", !.error = e,
                   !.delays = Append(@, RetryDelay(w.attempt))]
    ELSE [w EXCEPT !.st = "thrown", !.error = e]

\* The catch block, were its test "attempt < retries" alone.
WROnRejectAnyError(w, e) ==
    IF w.attempt < w.retries
    THEN [w EXCEPT !.st = "sleeping", !.error = e,
                   !.delays = Append(@, RetryDelay(w.attempt))]
    ELSE [w EXCEPT !.st = "thrown", !.error = e]

\* fn() rejected with e: the catch block.
WROnReject(w, e) ==
    IF IsRetryable(e) /\ w.attempt < w.retries
    THEN [w EXCEPT !.st = "sleeping", !.error = e,
                   !.delays = Append(@, RetryDelay(w.attempt))]
    ELSE [w EXCEPT !.st = "thrown", !.error = e]

\* The backoff timer fires: continue, attempt++, fn is invoked again.
WRWake(w) ==
    [w EXCEPT !.attempt = @ + 1, !.calls = @ + 1, !.st = "calling", !.error = NoError]

\* fn() resolved: return await fn()
WROnResolve(w) == [w EXCEPT !.st = "returned"]

----------------------------------------------------------------------------
(* types.ts: the exercise types, questions, sections *)

GRAMMAR == "Grammar"
VOCABULARY == "Vocabulary & Image Matching"
READING == "Reading Comprehension"
LISTENING == "Listening Comprehension"
SPEAKING == "Speaking & Pronunciation"

ExerciseType == {GRAMMAR, VOCABULARY, READING, LISTENING, SPEAKING}

\* A Question.  options is <<>> for a missing or empty array (the code
\* reads it only behind "options && options.length > 0").  questionImage is
\* "" when unset.  audioData is the length of the base64 payload, 0 when
\* unset (undefined and "" are both falsy, and only truthiness and length
\* are read).
MkQuestion(text, opts, answer, audio) ==
    [questionText |-> text, options |-> opts, correctAnswer |-> answer,
     questionImage |-> "", audioData |-> audio]

\* A GeneratedSection.  hasContextText tells whether the contextText
\* property exists; contextText is <<>> when it does not.
MkSection(type, hasCtx, ctx, qs) ==
    [type |-> type, hasContextText |-> hasCtx, contextText |-> ctx, questions |-> qs]

----------------------------------------------------------------------------
(* shuffleArray *)

Swap(array, i, j) == [array EXCEPT ![i] = array[j], ![j] = array[i]]

\* The draws of Math.random in one shuffle of n elements: for each index i
\* from the last down to the second, an index j at or below it.
ShuffleDraws(n) == {js \in [2..n -> 1..n] : \A i \in 2..n : js[i] <= i}

RECURSIVE ShuffleFrom(_, _, _)
ShuffleFrom(array, i, js) ==
    IF i < 2 THEN array ELSE ShuffleFrom(Swap(array, i, js[i]), i - 1, js)

\* shuffleArray(array) under the draws js
shuffleArray(array, js) == ShuffleFrom(array, Len(array), js)

----------------------------------------------------------------------------
(* generateExercises: clean up and validate *)

\* Array.prototype.find: the first of the indices whose element satisfies
\* the predicate, 0 if there is none.
FindIndex(satisfying) ==
    IF satisfying = {}
    THEN 0
    ELSE CHOOSE i \in satisfying : \A j \in satisfying : i <= j

\* needsValidation, were Speaking sections validated too.
NeedsValidationAlways(type) == TRUE

needsValidation(type) == type \in {LISTENING, READING, VOCABULARY, GRAMMAR}

\* The body of section.questions.forEach for one question of a section that
\* needs validation; js are the draws of its shuffle.
ValidateQuestion(type, question, js) ==
    LET options ==
            IF type = LISTENING /\ Len(question.options) > 0
            THEN shuffleArray(question.options, js)
            ELSE question.options
        normalizedCorrect == normalize(question.correctAnswer)
        IsExact(opt) == normalize(opt) = normalizedCorrect
        IsClose(opt) ==
            \/ StartsWith(normalize(opt), normalizedCorrect)
            \/ StartsWith(normalizedCorrect, normalize(opt))
        m == FindIndex({i \in 1..Len(options) : IsExact(options[i])})
        c == FindIndex({i \in 1..Len(options) : IsClose(options[i])})
        matchingOption == IF m = 0 THEN <<>> ELSE options[m]
        closestMatch == IF c = 0 THEN <<>> ELSE options[c]
        shuffled == [question EXCEPT !.options = options]
    IN  IF Len(options) > 0 /\ question.correctAnswer # <<>>
        THEN IF matchingOption = <<>>
             THEN IF closestMatch # <<>>
                  THEN [shuffled EXCEPT !.correctAnswer = closestMatch]
                  ELSE [shuffled EXCEPT !.correctAnswer = options[1]]
             ELSE [shuffled EXCEPT !.correctAnswer = matchingOption]
        ELSE shuffled

\* All sequences whose i-th element is drawn from sets[i].
RECURSIVE SeqProduct(_)
SeqProduct(sets) ==
    IF sets = <<>> THEN {<<>>}
    ELSE {<<h>> \o t : h \in Head(sets), t \in SeqProduct(Tail(sets))}

\* What validation can make of one question, over the shuffle's draws.
QuestionOutcomes(type, question) ==
    IF needsValidation(type)
    THEN {ValidateQuestion(type, question, js) :
              js \in ShuffleDraws(IF type = LISTENING THEN Len(question.options) ELSE 0)}
    ELSE {question}

\* The first statement of content.sections.forEach: the contextText cleanup.
CleanContextText(section) ==
    IF section.type = LISTENING /\ section.contextText # <<>>
    THEN [section EXCEPT !.hasContextText = FALSE, !.contextText = <<>>]
    ELSE section

\* What content.sections.forEach (clean up and validate) can make of one section.
SectionOutcomes(section) ==
    {[CleanContextText(section) EXCEPT !.questions = qs] :
        qs \in SeqProduct([i \in 1..Len(section.questions) |->
                              QuestionOutcomes(section.type, section.questions[i])])}

\* What it can make of the parsed sections.
ValidatedSections(parsed) ==
    SeqProduct([s \in 1..Len(parsed) |-> SectionOutcomes(parsed[s])])

----------------------------------------------------------------------------
(* generateExercises: the image fan-out and the audio tasks *)

TextRetries == 3
ImageRetries == 2
AudioRetries == 2

\* The <<section, question>> positions of the sections whose type is in
\* types, in forEach order.
RECURSIVE PositionsFrom(_, _, _)
PositionsFrom(secs, s, types) ==
    IF s > Len(secs) THEN <<>>
    ELSE (IF secs[s].type \in types
          THEN [q \in 1..Len(secs[s].questions) |-> <<s, q>>]
          ELSE <<>>)
         \o PositionsFrom(secs, s + 1, types)

Positions(secs, types) == PositionsFrom(secs, 1, types)

QuestionAt(secs, pos) == secs[pos[1]].questions[pos[2]]

\* imageGenerationPromises as pushed: one task per question of a Vocabulary
\* or Listening section, generateImage(question.correctAnswer) already
\* called, its request in flight.
ImageTasksOf(secs) ==
    LET ps == Positions(secs, {VOCABULARY, LISTENING})
    IN  [t \in 1..Len(ps) |->
            [pos |-> ps[t],
             prompt |-> QuestionAt(secs, ps[t]).correctAnswer,
             frame |-> WRStart(ImageRetries),
             result |-> "pending"]]

\* A settled task keeps only what generateImage resolved to: "image" or
\* "undefined"; its withRetry frame is gone.
SettleTask(task, result) == [task EXCEPT !.frame = NoFrame, !.result = result]

\* Promise.all, were the promises not awaited.
AllSettledNoWait(tasks) == TRUE

\* Promise.all(imageGenerationPromises) has resolved.
AllSettled(tasks) == \A t \in 1..Len(tasks) : tasks[t].result # "pending"

\* String.fromCharCode(65 + i), i counted from 0
Letter(i) == <<"A", "B", "C", "D", "E", "F">>[i + 1]

\* The audio text of one Listening question: question + lettered options.
AudioText(question) ==
    LET head == IF question.questionText # <<>>
                THEN <<question.questionText, <<".", ".", ".">>>>
                ELSE <<>>
        opts == [i \in 1..Len(question.options) |->
                    <<Letter(i - 1), ".", " ">> \o question.options[i] \o <<".">>]
    IN  Join(head \o opts)

\* question.audioData = undefined, for every question of a Listening section
ClearAudio(secs) ==
    [s \in 1..Len(secs) |->
        IF secs[s].type = LISTENING
        THEN [secs[s] EXCEPT !.questions =
                 [q \in 1..Len(secs[s].questions) |->
                     [secs[s].questions[q] EXCEPT !.audioData = 0]]]
        ELSE secs[s]]

\* audioTasks, were the scripts built from the options as the model
\* returned them.
AudioTasksOfResponse(secs) ==
    LET ps == Positions(secs, {LISTENING})
    IN  [t \in 1..Len(ps) |->
            [pos |-> ps[t], audioText |-> AudioText(QuestionAt(response, ps[t])),
             result |-> "pending"]]

\* audioTasks as pushed.  result tells how the loop left the task: "stored"
\* (question.audioData = audioData) or "undefined" (the warning).
AudioTasksOf(secs) ==
    LET ps == Positions(secs, {LISTENING})
    IN  [t \in 1..Len(ps) |->
            [pos |-> ps[t], audioText |-> AudioText(QuestionAt(secs, ps[t])),
             result |-> "pending"]]

maxRetries == 3
AudioMinLength == 15000
AudioLengthPerChar == 100
InterRequestDelay == 2500
FirstAttemptDelay == 1000
RetryWaitBase == 3500
RetryWaitStep == 2000

\* The threshold, were it audioText.length * 100 alone.
EstimatedMinLengthNoFloor(audioText) == Len(audioText) * AudioLengthPerChar

\* Math.max(15000, audioText.length * 100)
estimatedMinLength(audioText) ==
    Max(AudioMinLength, Len(audioText) * AudioLengthPerChar)

\* The timer the audio loop waits on before attempt retryCount.
AttemptWait(retryCount) ==
    IF retryCount > 0 THEN RetryWaitBase + retryCount * RetryWaitStep
    ELSE FirstAttemptDelay

NoLoop == [i |-> 0, retryCount |-> 0, audioData |-> 0, frame |-> NoFrame, timer |-> 0]

----------------------------------------------------------------------------
(* generateExercises: the catch block *)

NoTextMessage == <<"No response text generated">>
ParseFailedMessage == <<"Failed to parse response JSON.">>
OverloadedMessage ==
    <<"Gemini model is currently ", "overloaded", ". Please try again in a few moments.">>
InvalidKeyMessage ==
    <<"Invalid API key. Please check your GEMINI_", "API_KEY", " in environment variables.">>

\* throw error, at the end of withRetry's catch block
WRThrown(e) == e

CatchErrorMessage(e) ==
    IF e.message # <<>> THEN e.message
    ELSE IF e.inner.message # <<>> THEN e.inner.message
    ELSE <<"Unknown error">>

\* The catch block, were it to report every error as an overload.
GenerateExercisesCatchAllOverloaded(e) == NewError(OverloadedMessage)

\* What the catch block of generateExercises throws for the error e.
GenerateExercisesCatch(e) ==
    LET errorCode == OrElse(e.code, e.inner.code)
        errorStatus == OrElse(e.status, e.inner.status)
        errorMessage == CatchErrorMessage(e)
    IN  IF \/ errorCode = "n503"
           \/ errorStatus = "n503"
           \/ errorStatus = "UNAVAILABLE"
           \/ Includes(errorMessage, "overloaded")
        THEN NewError(OverloadedMessage)
        ELSE IF \/ Includes(errorMessage, "API_KEY")
                \/ errorCode = "n401"
                \/ errorStatus = "n401"
             THEN NewError(InvalidKeyMessage)
             ELSE e

\* How generateExercises ended: for a throw, cause is the error its catch
\* block caught and error the one it threw.
NoResult == [kind |-> "none", cause |-> NoError, error |-> NoError]
Returned == [kind |-> "returned", cause |-> NoError, error |-> NoError]
Thrown(e) == [kind |-> "thrown", cause |-> e, error |-> GenerateExercisesCatch(e)]

----------------------------------------------------------------------------
(* App *)

NoContent == [present |-> FALSE, sections |-> <<>>]
Content(secs) == [present |-> TRUE, sections |-> secs]

GenerateFailedMessage ==
    "Failed to generate exercises. Please check your connection or API key limit and try again."

\* UserPreferences, as far as the pipeline's result is held against them.
Preferences(selectedTypes, questionCount) ==
    [selectedTypes |-> selectedTypes, questionCount |-> questionCount]

\* The preferences the App starts with.
DefaultPreferences == Preferences({GRAMMAR, READING}, 5)

\* The preferences the form may hold when the teacher generates.
PreferencesPool ==
    { DefaultPreferences,
      Preferences({GRAMMAR}, 1),
      Preferences({}, 1) }

\* The generate button is disabled without a selected type.
SubmittablePreferences == {p \in PreferencesPool : p.selectedTypes # {}}

\* A selectRandomVocabulary call: its arguments, what it returned.
NoVocab == [list |-> <<>>, count |-> 0, result |-> <<>>, done |-> FALSE]

\* An evaluatePronunciation call: its targetPhrase, how it stands (none,
\* calling, returned, thrown), the wordFeedback it returned.
NoAssessment == [targetPhrase |-> <<>>, st |-> "none", wordFeedback |-> <<>>]

\* App in student mode.  studentName and studentFeedback tell whether the
\* trimmed text is non-empty.  feedbackTimerId is 0 for null.  timers are the
\* pending window.setTimeout callbacks, each with the studentName and the
\* feedbackTimerId of the render that created it.  inFlight counts the
\* submitToGoogleForm calls not yet settled; calls lists, for every call made,
\* what the App was doing when it started.
NoSubmission ==
    [showSaveModal |-> FALSE, studentName |-> FALSE, studentFeedback |-> FALSE,
     feedbackTimerId |-> 0, timers |-> {}, nextTimerId |-> 1,
     formSubmitted |-> FALSE, inFlight |-> 0, calls |-> <<>>]

\* A validation pass of its own: the section type and the question the
\* model returned, the question after the pass (result), and how many
\* times the pass has run over it.
NoRepair ==
    [type |-> "", question |-> MkQuestion(<<>>, <<>>, <<>>, 0),
     result |-> MkQuestion(<<>>, <<>>, <<>>, 0), passes |-> 0]

\* The asynchronous calls of the App in teacher mode.  gens lists the
\* handleGenerate calls in the order they started: how the call stands
\* (content, images: generateExercises in flight, before and after its
\* onStatusUpdate('generating_images'); returned, thrown) and the calls that
\* were in flight when it started.  video tells whether
\* analyzeVideoForPreferences is in flight (InputForm.analyzingVideo),
\* uploads counts the uploadToDrive calls in flight, shown is the index of
\* the call whose result content holds (0: none).
NoCalls == [gens |-> <<>>, video |-> FALSE, uploads |-> 0, shown |-> 0]

\* InputForm as mounted: questionCountInput is
\* preferences.questionCount.toString(), questionCountError is null.
NoForm == [questionCountInput |-> <<"5">>, questionCountError |-> FALSE]

\* The answers to the displayed worksheet.  userAnswers maps the keys
\* answered so far (<<sectionIndex, questionIndex>>) to the answer;
\* scoreData is NoScore for null; evaluations holds, for every
\* evaluateRecording call awaiting evaluatePronunciation, the key of its
\* question and the isSubmitted of the render whose handleAnswerSelect its
\* onSelect closes over.
NoScore == [present |-> FALSE, correct |-> 0, total |-> 0]
NoAnswers == [key \in {} |-> <<>>]
NoSession ==
    [isStudentMode |-> FALSE, userAnswers |-> NoAnswers, isSubmitted |-> FALSE,
     scoreData |-> NoScore, showConfirmModal |-> FALSE,
     confirmModalData |-> NoScore, evaluations |-> {}]

NoProbe == [frame |-> NoFrame, log |-> <<>>, rejected |-> NoError,
            thrown |-> NoError, value |-> ""]

----------------------------------------------------------------------------
(* What the model may return *)

LongTextLength == 150
StaleAudioLength == 7

Sa == <<"a">>
SA == <<"A", " ">>
Sab == <<"a", "b">>
Sb == <<"b">>
Sc == <<"c">>

ShortText == <<"q", "?">>
LongText == Rep("q", LongTextLength)

QuestionPool ==
    { MkQuestion(ShortText, <<Sa, Sb>>, Sa, 0),
      MkQuestion(ShortText, <<Sb, SA>>, Sa, 0),
      MkQuestion(ShortText, <<Sa, Sb>>, Sc, 0),
      MkQuestion(ShortText, <<Sa, Sb>>, <<>>, 0),
      MkQuestion(LongText, <<Sb, Sab>>, Sa, StaleAudioLength),
      MkQuestion(<<>>, <<>>, Sa, 0) }

SeqsOf(S, counts) == UNION {[1..n -> S] : n \in counts}

ContextTexts == {<<FALSE, <<>>>>, <<TRUE, <<>>>>, <<TRUE, <<"p">>>>}

\* Sections of up to two questions, with or without a contextText.
SectionPool ==
    { MkSection(type, ctx[1], ctx[2], qs) :
        type \in ExerciseType, ctx \in ContextTexts,
        qs \in SeqsOf(QuestionPool, 0..2) }

\* Sections of one question and no contextText.
PlainSectionPool ==
    { MkSection(type, FALSE, <<>>, <<q>>) : type \in ExerciseType, q \in QuestionPool }

\* The sections arrays the model may return: none, one section of the
\* pool, or two plain sections.
SectionsPool ==
    SeqsOf(SectionPool, 0..1) \cup SeqsOf(PlainSectionPool, {2})

\* response.text: falsy, not JSON, JSON without a sections array, or JSON
\* with sections.
TextResponses ==
    { [kind |-> k, sections |-> <<>>] : k \in {"no_text", "bad_json", "no_sections"} }
    \cup { [kind |-> "sections", sections |-> secs] : secs \in SectionsPool }

\* The lengths of the payloads speech synthesis may return for a text: none,
\* and the lengths around the two thresholds.
AudioPayloads(audioText) ==
    { n \in { 0, AudioMinLength - 1, AudioMinLength,
              Len(audioText) * AudioLengthPerChar - 1,
              Len(audioText) * AudioLengthPerChar } : n >= 0 }

ImageDataUrl == "data:image/png;base64,"

----------------------------------------------------------------------------
(* The state machine *)

\* The App as mounted: no content, no error, no generation under way.
InitPipeline ==
    /\ preferences = DefaultPreferences
    /\ loadingStatus = "idle"
    /\ content = NoContent
    /\ error = ""
    /\ pc = "idle"
    /\ textRetry = NoFrame
    /\ response = <<>>
    /\ sections = <<>>
    /\ imageTasks = <<>>
    /\ audioTasks = <<>>
    /\ audioLoop = NoLoop
    /\ genResult = NoResult

Init ==
    /\ InitPipeline
    /\ session = NoSession
    /\ form = NoForm
    /\ calls = NoCalls
    /\ repair = NoRepair
    /\ probe = NoProbe
    /\ vocab = NoVocab
    /\ assessment = NoAssessment
    /\ submission = NoSubmission

\* App.handleGenerate up to its await: the generate and regenerate buttons
\* are enabled only while loadingStatus is idle, the generate button only
\* with a selected type, the regenerate button only with a content on
\* display.  generateExercises is called with the preferences the form
\* holds at that moment and runs up to the text request.
HandleGenerate ==
    /\ loadingStatus = "idle"
    /\ pc = "idle"
    /\ \E p \in (IF content.present THEN PreferencesPool ELSE SubmittablePreferences) :
           preferences' = p
    /\ loadingStatus' = "generating_content"
    /\ error' = ""
    /\ content' = NoContent
    /\ pc' = "text"
    /\ textRetry' = WRStart(TextRetries)
    /\ response' = <<>>
    /\ sections' = <<>>
    /\ imageTasks' = <<>>
    /\ audioTasks' = <<>>
    /\ audioLoop' = NoLoop
    /\ genResult' = NoResult
    /\ UNCHANGED unitVars

\* The text request fails with e: withRetry sleeps, or throws into the
\* catch block of generateExercises.
TextRejects ==
    /\ pc = "text"
    /\ textRetry.st = "calling"
    /\ \E e \in ErrPool :
        LET w == WROnReject(textRetry, e)
        IN  /\ textRetry' = w
            /\ IF w.st = "thrown"
               THEN /\ pc' = "thrown"
                    /\ genResult' = Thrown(WRThrown(e))
               ELSE UNCHANGED <<pc, genResult>>
    /\ UNCHANGED <<preferences, loadingStatus, content, error, response, sections,
                   imageTasks, audioTasks, audioLoop, unitVars>>

\* The backoff timer of the text request fires.
TextWake ==
    /\ pc = "text"
    /\ textRetry.st = "sleeping"
    /\ textRetry' = WRWake(textRetry)
    /\ UNCHANGED <<preferences, loadingStatus, content, error, pc, response, sections,
                   imageTasks, audioTasks, audioLoop, genResult, unitVars>>

\* After the images: the audio tasks are built; the loop starts with the
\* first attempt's timer, or the content is returned.
EnterAudio(secs) ==
    LET tasks == AudioTasksOf(secs)
    IN  /\ sections' = ClearAudio(secs)
        /\ audioTasks' = tasks
        /\ IF Len(tasks) > 0
           THEN /\ pc' = "audio_wait"
                /\ audioLoop' = [NoLoop EXCEPT !.i = 1, !.timer = AttemptWait(0)]
                /\ UNCHANGED genResult
           ELSE /\ pc' = "returned"
                /\ audioLoop' = NoLoop
                /\ genResult' = Returned

\* The text request succeeds with r: parse, clean up and validate, start the
\* image requests.
TextResolves ==
    /\ pc = "text"
    /\ textRetry.st = "calling"
    /\ textRetry' = NoFrame
    /\ \E r \in TextResponses :
        IF r.kind = "no_text"
        THEN /\ pc' = "thrown"
             /\ genResult' = Thrown(NewError(NoTextMessage))
             /\ UNCHANGED <<loadingStatus, response, sections, imageTasks,
                            audioTasks, audioLoop>>
        ELSE IF r.kind = "bad_json"
        THEN /\ pc' = "thrown"
             /\ genResult' = Thrown(NewError(ParseFailedMessage))
             /\ UNCHANGED <<loadingStatus, response, sections, imageTasks,
                            audioTasks, audioLoop>>
        ELSE /\ response' = r.sections
             /\ \E secs \in ValidatedSections(r.sections) :
                 LET tasks == ImageTasksOf(secs)
                 IN  /\ imageTasks' = tasks
                     /\ loadingStatus' =
                            IF \E s \in 1..Len(secs) :
                                   secs[s].type \in {VOCABULARY, LISTENING}
                            THEN "generating_images"
                            ELSE loadingStatus
                     /\ IF Len(tasks) > 0
                        THEN /\ pc' = "images"
                             /\ sections' = secs
                             /\ UNCHANGED <<audioTasks, audioLoop, genResult>>
                        ELSE EnterAudio(secs)
    /\ UNCHANGED <<preferences, content, error, unitVars>>


SetImage(secs, pos, img) ==
    [secs EXCEPT ![pos[1]].questions[pos[2]].questionImage = img]

SetAudio(secs, pos, audio) ==
    [secs EXCEPT ![pos[1]].questions[pos[2]].audioData = audio]

\* ImageRejects, were generateImage to rethrow what withRetry throws.
ImageRejectsThrowing(t) ==
    /\ pc = "images"
    /\ imageTasks[t].frame.st = "calling"
    /\ \E e \in EnrichmentErrPool :
        LET w == WROnReject(imageTasks[t].frame, e)
        IN  IF w.st = "thrown"
            THEN /\ pc' = "thrown"
                 /\ genResult' = Thrown(WRThrown(e))
                 /\ imageTasks' = [imageTasks EXCEPT ![t] = SettleTask(@, "undefined")]
            ELSE /\ imageTasks' = [imageTasks EXCEPT ![t].frame = w]
                 /\ UNCHANGED <<pc, genResult>>
    /\ UNCHANGED <<preferences, loadingStatus, content, error, textRetry, response, sections,
                   audioTasks, audioLoop, unitVars>>

\* The request of image task t fails with e: withRetry sleeps, or throws
\* into the catch block of generateImage, which returns undefined.
ImageRejects(t) ==
    /\ pc = "images"
    /\ imageTasks[t].frame.st = "calling"
    /\ \E e \in EnrichmentErrPool :
        LET w == WROnReject(imageTasks[t].frame, e)
        IN  imageTasks' =
                IF w.st = "thrown"
                THEN [imageTasks EXCEPT ![t] = SettleTask(@, "undefined")]
                ELSE [imageTasks EXCEPT ![t].frame = w]
    /\ UNCHANGED <<preferences, loadingStatus, content, error, pc, textRetry, response, sections,
                   audioTasks, audioLoop, genResult, unitVars>>

\* The backoff timer of image task t fires.
ImageWake(t) ==
    /\ pc = "images"
    /\ imageTasks[t].frame.st = "sleeping"
    /\ imageTasks' = [imageTasks EXCEPT ![t].frame = WRWake(@)]
    /\ UNCHANGED <<preferences, loadingStatus, content, error, pc, textRetry, response, sections,
                   audioTasks, audioLoop, genResult, unitVars>>

\* ImageResolves, were each generateImage awaited before the next question's
\* is called: the response of task t is taken up only once the tasks before
\* it are settled.
ImageResolvesInTurn(t) ==
    /\ pc = "images"
    /\ imageTasks[t].frame.st = "calling"
    /\ \A u \in 1..(t - 1) : imageTasks[u].result # "pending"
    /\ \E hasInlineData \in BOOLEAN :
        IF hasInlineData
        THEN /\ imageTasks' = [imageTasks EXCEPT ![t] = SettleTask(@, "image")]
             /\ sections' = SetImage(sections, imageTasks[t].pos, ImageDataUrl)
        ELSE /\ imageTasks' = [imageTasks EXCEPT ![t] = SettleTask(@, "undefined")]
             /\ UNCHANGED sections
    /\ UNCHANGED <<preferences, loadingStatus, content, error, pc, textRetry, response,
                   audioTasks, audioLoop, genResult, unitVars>>

\* The request of image task t succeeds, with or without an inlineData
\* part: the task sets questionImage when generateImage returned a URL.
ImageResolves(t) ==
    /\ pc = "images"
    /\ imageTasks[t].frame.st = "calling"
    /\ \E hasInlineData \in BOOLEAN :
        IF hasInlineData
        THEN /\ imageTasks' = [imageTasks EXCEPT ![t] = SettleTask(@, "image")]
             /\ sections' = SetImage(sections, imageTasks[t].pos, ImageDataUrl)
        ELSE /\ imageTasks' = [imageTasks EXCEPT ![t] = SettleTask(@, "undefined")]
             /\ UNCHANGED sections
    /\ UNCHANGED <<preferences, loadingStatus, content, error, pc, textRetry, response,
                   audioTasks, audioLoop, genResult, unitVars>>

\* await Promise.all(imageGenerationPromises) resumes.
AwaitImagesResumes ==
    /\ pc = "images"
    /\ AllSettled(imageTasks)
    /\ EnterAudio(sections)
    /\ UNCHANGED <<preferences, loadingStatus, content, error, textRetry, response,
                   imageTasks, unitVars>>

\* The 2500 ms timer between two audio tasks fires.
AudioDelayElapses ==
    /\ pc = "audio_delay"
    /\ pc' = "audio_wait"
    /\ audioLoop' = [audioLoop EXCEPT !.timer = AttemptWait(audioLoop.retryCount)]
    /\ UNCHANGED <<preferences, loadingStatus, content, error, textRetry, response, sections,
                   imageTasks, audioTasks, genResult, unitVars>>

\* AudioWaitElapses, were generateAudioBase64 to retry as generateExercises
\* retries its text request.
AudioWaitElapsesTextRetries ==
    /\ pc = "audio_wait"
    /\ pc' = "audio_call"
    /\ audioLoop' = [audioLoop EXCEPT !.frame = WRStart(TextRetries), !.timer = 0]
    /\ UNCHANGED <<preferences, loadingStatus, content, error, textRetry, response, sections,
                   imageTasks, audioTasks, genResult, unitVars>>

\* The timer before an attempt fires: generateAudioBase64(audioText) is
\* called and its request is in flight.
AudioWaitElapses ==
    /\ pc = "audio_wait"
    /\ pc' = "audio_call"
    /\ audioLoop' = [audioLoop EXCEPT !.frame = WRStart(AudioRetries), !.timer = 0]
    /\ UNCHANGED <<preferences, loadingStatus, content, error, textRetry, response, sections,
                   imageTasks, audioTasks, genResult, unitVars>>

\* AfterAttempt, were retryCount not incremented.
AfterAttemptNoIncrement(data, minLength) ==
    LET task == audioTasks[audioLoop.i]
        audioData == IF data > 0 /\ data < minLength THEN 0 ELSE data
        retryCount == audioLoop.retryCount
    IN  IF audioData = 0 /\ retryCount <= maxRetries
        THEN /\ pc' = "audio_wait"
             /\ audioLoop' = [audioLoop EXCEPT !.retryCount = retryCount,
                                               !.audioData = 0,
                                               !.frame = NoFrame,
                                               !.timer = AttemptWait(retryCount)]
             /\ UNCHANGED <<sections, audioTasks, genResult>>
        ELSE /\ sections' = IF audioData > 0
                            THEN SetAudio(sections, task.pos, audioData)
                            ELSE sections
             /\ audioTasks' = [audioTasks EXCEPT ![audioLoop.i].result =
                                  IF audioData > 0 THEN "stored" ELSE "undefined"]
             /\ IF audioLoop.i < Len(audioTasks)
                THEN /\ pc' = "audio_delay"
                     /\ audioLoop' = [NoLoop EXCEPT !.i = audioLoop.i + 1,
                                                    !.timer = InterRequestDelay]
                     /\ UNCHANGED genResult
                ELSE /\ pc' = "returned"
                     /\ audioLoop' = [NoLoop EXCEPT !.i = audioLoop.i]
                     /\ genResult' = Returned

\* AfterAttempt, were the for loop to go on to the next task without the
\* 2500 ms timer.
AfterAttemptNoDelay(data, minLength) ==
    LET task == audioTasks[audioLoop.i]
        audioData == IF data > 0 /\ data < minLength THEN 0 ELSE data
        retryCount == audioLoop.retryCount + 1
    IN  IF audioData = 0 /\ retryCount <= maxRetries
        THEN /\ pc' = "audio_wait"
             /\ audioLoop' = [audioLoop EXCEPT !.retryCount = retryCount,
                                               !.audioData = 0,
                                               !.frame = NoFrame,
                                               !.timer = AttemptWait(retryCount)]
             /\ UNCHANGED <<sections, audioTasks, genResult>>
        ELSE /\ sections' = IF audioData > 0
                            THEN SetAudio(sections, task.pos, audioData)
                            ELSE sections
             /\ audioTasks' = [audioTasks EXCEPT ![audioLoop.i].result =
                                  IF audioData > 0 THEN "stored" ELSE "undefined"]
             /\ IF audioLoop.i < Len(audioTasks)
                THEN /\ pc' = "audio_wait"
                     /\ audioLoop' = [NoLoop EXCEPT !.i = audioLoop.i + 1,
                                                    !.timer = AttemptWait(0)]
                     /\ UNCHANGED genResult
                ELSE /\ pc' = "returned"
                     /\ audioLoop' = [NoLoop EXCEPT !.i = audioLoop.i]
                     /\ genResult' = Returned

\* generateAudioBase64 resolved to a payload of length data (0: undefined):
\* the rest of the while body, the loop test, and what follows the loop.
AfterAttempt(data, minLength) ==
    LET task == audioTasks[audioLoop.i]
        audioData == IF data > 0 /\ data < minLength THEN 0 ELSE data
        retryCount == audioLoop.retryCount + 1
    IN  IF audioData = 0 /\ retryCount <= maxRetries
        THEN /\ pc' = "audio_wait"
             /\ audioLoop' = [audioLoop EXCEPT !.retryCount = retryCount,
                                               !.audioData = 0,
                                               !.frame = NoFrame,
                                               !.timer = AttemptWait(retryCount)]
             /\ UNCHANGED <<sections, audioTasks, genResult>>
        ELSE /\ sections' = IF audioData > 0
                            THEN SetAudio(sections, task.pos, audioData)
                            ELSE sections
             /\ audioTasks' = [audioTasks EXCEPT ![audioLoop.i].result =
                                  IF audioData > 0 THEN "stored" ELSE "undefined"]
             /\ IF audioLoop.i < Len(audioTasks)
                THEN /\ pc' = "audio_delay"
                     /\ audioLoop' = [NoLoop EXCEPT !.i = audioLoop.i + 1,
                                                    !.timer = InterRequestDelay]
                     /\ UNCHANGED genResult
                ELSE /\ pc' = "returned"
                     /\ audioLoop' = [NoLoop EXCEPT !.i = audioLoop.i]
                     /\ genResult' = Returned

\* The synthesis request fails with e: withRetry sleeps, or throws into the
\* catch block of generateAudioBase64, which returns undefined.
AudioRejects ==
    /\ pc = "audio_call"
    /\ audioLoop.frame.st = "calling"
    /\ \E e \in EnrichmentErrPool :
        LET w == WROnReject(audioLoop.frame, e)
        IN  IF w.st = "thrown"
            THEN AfterAttempt(0, estimatedMinLength(audioTasks[audioLoop.i].audioText))
            ELSE /\ audioLoop' = [audioLoop EXCEPT !.frame = w]
                 /\ UNCHANGED <<pc, sections, audioTasks, genResult>>
    /\ UNCHANGED <<preferences, loadingStatus, content, error, textRetry, response,
                   imageTasks, unitVars>>

\* The backoff timer of the synthesis request fires.
AudioWake ==
    /\ pc = "audio_call"
    /\ audioLoop.frame.st = "sleeping"
    /\ audioLoop' = [audioLoop EXCEPT !.frame = WRWake(@)]
    /\ UNCHANGED <<preferences, loadingStatus, content, error, pc, textRetry, response, sections,
                   imageTasks, audioTasks, genResult, unitVars>>

\* The synthesis request succeeds with a payload, or with none.
AudioResolves ==
    /\ pc = "audio_call"
    /\ audioLoop.frame.st = "calling"
    /\ \E data \in AudioPayloads(audioTasks[audioLoop.i].audioText) :
        AfterAttempt(data, estimatedMinLength(audioTasks[audioLoop.i].audioText))
    /\ UNCHANGED <<preferences, loadingStatus, content, error, textRetry, response,
                   imageTasks, unitVars>>

\* App.handleGenerate after its await: setContent(result), or the catch
\* block's setError; then finally.
HandleGenerateResumes ==
    /\ pc \in {"returned", "thrown"}
    /\ content' = IF pc = "returned" THEN Content(sections) ELSE content
    /\ error' = IF pc = "thrown" THEN GenerateFailedMessage ELSE error
    /\ loadingStatus' = "idle"
    /\ pc' = "idle"
    /\ UNCHANGED <<preferences, textRetry, response, sections, imageTasks, audioTasks,
                   audioLoop, genResult, unitVars>>

Next ==
    \/ HandleGenerate
    \/ TextRejects
    \/ TextWake
    \/ TextResolves
    \/ \E t \in 1..Len(imageTasks) : ImageRejects(t)
    \/ \E t \in 1..Len(imageTasks) : ImageWake(t)
    \/ \E t \in 1..Len(imageTasks) : ImageResolves(t)
    \/ AwaitImagesResumes
    \/ AudioDelayElapses
    \/ AudioWaitElapses
    \/ AudioRejects
    \/ AudioWake
    \/ AudioResolves
    \/ HandleGenerateResumes

Spec == Init /\ [][Next]_vars

\* The steps of a generateExercises call in flight: a timer fires, an
\* external call completes or fails, an await resumes.
CallStep ==
    \/ TextRejects
    \/ TextWake
    \/ TextResolves
    \/ \E t \in 1..Len(imageTasks) : ImageRejects(t)
    \/ \E t \in 1..Len(imageTasks) : ImageWake(t)
    \/ \E t \in 1..Len(imageTasks) : ImageResolves(t)
    \/ AwaitImagesResumes
    \/ AudioDelayElapses
    \/ AudioWaitElapses
    \/ AudioRejects
    \/ AudioWake
    \/ AudioResolves

\* The first generation of the App as mounted, with the preferences it
\* starts with.  HandleGenerate resets every variable of the call, so a
\* later call goes through the same steps.
FirstGenerate == HandleGenerate /\ preferences' = DefaultPreferences

NextLive == FirstGenerate \/ CallStep

\* One generateExercises call with every timer firing and every external
\* call completing or failing in the end.
SpecLive == Init /\ [][NextLive]_vars /\ WF_vars(CallStep)

----------------------------------------------------------------------------
(* withRetry on its own: any retry limit up to MaxRetries, any function.   *)
(* log is what fn did at each invocation ("retryable", "fatal", "ok"),     *)
(* rejected the last error fn threw, thrown the error withRetry threw,     *)
(* value what it returned.                                                 *)

MaxRetries == 4

ProbeValues == {"v1", "v2"}

InitRetry ==
    /\ InitPipeline
    /\ session = NoSession
    /\ form = NoForm
    /\ calls = NoCalls
    /\ repair = NoRepair
    /\ vocab = NoVocab
    /\ assessment = NoAssessment
    /\ submission = NoSubmission
    /\ \E retries \in 0..MaxRetries :
        probe = [NoProbe EXCEPT !.frame = WRStart(retries)]

ProbeRejects ==
    /\ probe.frame.st = "calling"
    /\ \E e \in ErrPool :
        LET w == WROnReject(probe.frame, e)
        IN  probe' = [probe EXCEPT
                        !.frame = w,
                        !.log = Append(@, IF IsRetryable(e) THEN "retryable" ELSE "fatal"),
                        !.rejected = e,
                        !.thrown = IF w.st = "thrown" THEN WRThrown(e) ELSE @]
    /\ UNCHANGED <<pipelineVars, vocab, assessment, submission, repair, calls, form, session>>

ProbeWake ==
    /\ probe.frame.st = "sleeping"
    /\ probe' = [probe EXCEPT !.frame = WRWake(@)]
    /\ UNCHANGED <<pipelineVars, vocab, assessment, submission, repair, calls, form, session>>

ProbeResolves ==
    /\ probe.frame.st = "calling"
    /\ \E v \in ProbeValues :
        probe' = [probe EXCEPT !.frame = WROnResolve(@),
                               !.log = Append(@, "ok"),
                               !.value = v]
    /\ UNCHANGED <<pipelineVars, vocab, assessment, submission, repair, calls, form, session>>

NextRetry == ProbeRejects \/ ProbeWake \/ ProbeResolves

SpecRetry == InitRetry /\ [][NextRetry]_vars

----------------------------------------------------------------------------
(* selectRandomVocabulary on its own: any list over a small alphabet, any   *)
(* count up to MaxCount.                                                   *)

MaxVocabLength == 6
MaxCount == 3

VocabChars == {"a", "b", ",", " "}

\* The vocabulary lists a teacher may type.
VocabLists == UNION {[1..n -> VocabChars] : n \in 0..MaxVocabLength}

\* The string "Mixed vocabulary"
MixedVocabulary ==
    <<"M", "i", "x", "e", "d", " ", "v", "o", "c", "a", "b", "u", "l", "a", "r", "y">>

\* String.prototype.split(',')
RECURSIVE SplitComma(_)
SplitComma(s) ==
    LET commas == {i \in 1..Len(s) : s[i] = ","}
    IN  IF commas = {}
        THEN <<s>>
        ELSE LET i == CHOOSE c \in commas : \A d \in commas : c <= d
             IN  <<SubSeq(s, 1, i - 1)>> \o SplitComma(SubSeq(s, i + 1, Len(s)))

\* .map(w => w.trim()).filter(w => w.length > 0)
RECURSIVE TrimmedNonEmpty(_)
TrimmedNonEmpty(parts) ==
    IF parts = <<>> THEN <<>>
    ELSE LET w == Trim(Head(parts))
         IN  (IF Len(w) > 0 THEN <<w>> ELSE <<>>) \o TrimmedNonEmpty(Tail(parts))

\* words.join(', ')
RECURSIVE JoinComma(_)
JoinComma(words) ==
    IF words = <<>> THEN <<>>
    ELSE IF Len(words) = 1 THEN words[1]
    ELSE words[1] \o <<",", " ">> \o JoinComma(Tail(words))

\* selectRandomVocabulary, were the shuffled words not sliced.
selectRandomVocabularyUnsliced(vocabularyList, count, js) ==
    IF vocabularyList = <<>> \/ Trim(vocabularyList) = <<>>
    THEN MixedVocabulary
    ELSE JoinComma(shuffleArray(TrimmedNonEmpty(SplitComma(vocabularyList)), js))

\* selectRandomVocabulary(vocabularyList, count) under the draws js of its
\* shuffle.
selectRandomVocabulary(vocabularyList, count, js) ==
    IF vocabularyList = <<>> \/ Trim(vocabularyList) = <<>>
    THEN MixedVocabulary
    ELSE LET words == TrimmedNonEmpty(SplitComma(vocabularyList))
         IN  IF Len(words) <= count
             THEN JoinComma(words)
             ELSE JoinComma(SubSeq(shuffleArray(words, js), 1, count))

InitVocab ==
    /\ InitPipeline
    /\ session = NoSession
    /\ form = NoForm
    /\ calls = NoCalls
    /\ repair = NoRepair
    /\ probe = NoProbe
    /\ assessment = NoAssessment
    /\ submission = NoSubmission
    /\ \E list \in VocabLists, count \in 0..MaxCount :
        vocab = [NoVocab EXCEPT !.list = list, !.count = count]

\* The call returns.
SelectRandomVocabulary ==
    /\ ~vocab.done
    /\ LET n == Len(TrimmedNonEmpty(SplitComma(vocab.list)))
       IN  \E js \in ShuffleDraws(n) :
               vocab' = [vocab EXCEPT
                           !.result = selectRandomVocabulary(vocab.list, vocab.count, js),
                           !.done = TRUE]
    /\ UNCHANGED <<pipelineVars, probe, assessment, submission, repair, calls, form, session>>

NextVocab == SelectRandomVocabulary

SpecVocab == InitVocab /\ [][NextVocab]_vars

----------------------------------------------------------------------------
(* evaluatePronunciation on its own: any target phrase over a small        *)
(* alphabet, any wordFeedback of the response schema.                      *)

MaxPhraseLength == 4
MaxFeedback == 2

PhraseChars == {"a", "A", "b", " "}

\* The target phrases of a Speaking question.
TargetPhrases == UNION {[1..n -> PhraseChars] : n \in 0..MaxPhraseLength}

\* An item of wordFeedback
WordFeedback(word, status, score) == [word |-> word, status |-> status, score |-> score]

\* The items the model may return: the schema makes word a string, status
\* one of the enum, score a number.
FeedbackItems ==
    { WordFeedback(<<"a">>, "correct", 100),
      WordFeedback(<<"A">>, "partial", 150),
      WordFeedback(<<"b">>, "incorrect", -5),
      WordFeedback(<<"a", "b">>, "partial", 60),
      WordFeedback(<<"c">>, "correct", 80) }

\* The wordFeedback arrays the model may return.
FeedbackResponses == UNION {[1..n -> FeedbackItems] : n \in 0..MaxFeedback}

\* targetPhrase.trim().split(/\s+/).filter(w => w.length > 0)
RECURSIVE SplitWords(_)
SplitWords(s) ==
    LET t == Trim(s)
        spaces == {i \in 1..Len(t) : IsSpace(t[i])}
    IN  IF t = <<>> THEN <<>>
        ELSE IF spaces = {} THEN <<t>>
        ELSE LET i == CHOOSE c \in spaces : \A d \in spaces : c <= d
             IN  <<SubSeq(t, 1, i - 1)>> \o SplitWords(SubSeq(t, i + 1, Len(t)))

\* words.filter(w => !existingWords.includes(w.toLowerCase()))
RECURSIVE MissingWords(_, _)
MissingWords(words, existingWords) ==
    IF words = <<>> THEN <<>>
    ELSE (IF ToLowerCase(Head(words)) \in existingWords THEN <<>> ELSE <<Head(words)>>)
         \o MissingWords(Tail(words), existingWords)

\* Math.max(0, Math.min(100, Math.round(score))), on whole scores
clampScore(score) == Max(0, Min(100, score))

\* The wordFeedback evaluatePronunciation returns for the response's
\* wordFeedback: padded with the missing words, scores clamped.
PaddedFeedback(targetPhrase, wordFeedback) ==
    LET words == SplitWords(targetPhrase)
        existingWords == {ToLowerCase(wordFeedback[k].word) : k \in 1..Len(wordFeedback)}
        missingWords == MissingWords(words, existingWords)
        pushed == wordFeedback \o
                  [k \in 1..Len(missingWords) |->
                      WordFeedback(missingWords[k], "incorrect", 0)]
    IN  [k \in 1..Len(pushed) |-> [pushed[k] EXCEPT !.score = clampScore(@)]]

InitPronunciation ==
    /\ InitPipeline
    /\ session = NoSession
    /\ form = NoForm
    /\ calls = NoCalls
    /\ repair = NoRepair
    /\ probe = NoProbe
    /\ vocab = NoVocab
    /\ submission = NoSubmission
    /\ \E targetPhrase \in TargetPhrases :
        assessment = [NoAssessment EXCEPT !.targetPhrase = targetPhrase, !.st = "calling"]

\* The request, under withRetry, succeeds: without text the call throws,
\* with a wordFeedback it returns.
AssessmentResolves ==
    /\ assessment.st = "calling"
    /\ \/ assessment' = [assessment EXCEPT !.st = "thrown"]
       \/ \E wordFeedback \in FeedbackResponses :
              assessment' = [assessment EXCEPT
                               !.st = "returned",
                               !.wordFeedback = PaddedFeedback(assessment.targetPhrase,
                                                               wordFeedback)]
    /\ UNCHANGED <<pipelineVars, probe, vocab, submission, repair, calls, form, session>>

\* withRetry throws: the catch block throws "Failed to evaluate
\* pronunciation".
AssessmentRejects ==
    /\ assessment.st = "calling"
    /\ assessment' = [assessment EXCEPT !.st = "thrown"]
    /\ UNCHANGED <<pipelineVars, probe, vocab, submission, repair, calls, form, session>>

NextPronunciation == AssessmentResolves \/ AssessmentRejects

SpecPronunciation == InitPronunciation /\ [][NextPronunciation]_vars

----------------------------------------------------------------------------
(* App in student mode, from the moment the student has finished the       *)
(* worksheet (confirmSubmit: isSubmitted, scoreData set, the save modal     *)
(* open) up to the submission of the result to the form.                   *)

MaxTimers == 3
MaxCalls == 3

InitSubmission ==
    /\ InitPipeline
    /\ session = NoSession
    /\ form = NoForm
    /\ calls = NoCalls
    /\ repair = NoRepair
    /\ probe = NoProbe
    /\ vocab = NoVocab
    /\ assessment = NoAssessment
    /\ submission = [NoSubmission EXCEPT !.showSaveModal = TRUE]

\* The student edits the name field.
TypeName ==
    /\ submission.showSaveModal
    /\ \E nonEmpty \in BOOLEAN :
        /\ nonEmpty # submission.studentName
        /\ submission' = [submission EXCEPT !.studentName = nonEmpty]
    /\ UNCHANGED <<loadingStatus, generationVars, probe, vocab, assessment, repair, calls, form, session>>

\* The student edits the feedback field: onChange clears the timer of
\* feedbackTimerId and, for a non-empty text, starts a new one.
TypeFeedback ==
    /\ submission.showSaveModal
    /\ \E nonEmpty \in BOOLEAN :
        LET kept == {t \in submission.timers : t.id # submission.feedbackTimerId}
            timer == [id |-> submission.nextTimerId,
                      studentName |-> submission.studentName,
                      feedbackTimerId |-> submission.feedbackTimerId]
        IN  IF nonEmpty
            THEN /\ submission.nextTimerId <= MaxTimers
                 /\ submission' = [submission EXCEPT
                                     !.studentFeedback = TRUE,
                                     !.timers = kept \cup {timer},
                                     !.feedbackTimerId = timer.id,
                                     !.nextTimerId = @ + 1]
            ELSE submission' = [submission EXCEPT
                                  !.studentFeedback = FALSE,
                                  !.timers = kept]
    /\ UNCHANGED <<loadingStatus, generationVars, probe, vocab, assessment, repair, calls, form, session>>

\* What the App is doing when a submitToGoogleForm call starts.
Circumstance ==
    IF submission.formSubmitted THEN "submitted"
    ELSE IF submission.inFlight > 0 THEN "uploading"
    ELSE "first"

\* handleSubmitToForm up to its await, in a render with the given
\* studentName and feedbackTimerId, the pending timers being timers.
HandleSubmitToForm(studentName, feedbackTimerId, timers) ==
    IF ~studentName
    THEN /\ submission' = [submission EXCEPT !.timers = timers]
         /\ UNCHANGED loadingStatus
    ELSE /\ Len(submission.calls) < MaxCalls
         /\ submission' = [submission EXCEPT
                             !.timers = {t \in timers : t.id # feedbackTimerId},
                             !.feedbackTimerId = IF feedbackTimerId # 0 THEN 0 ELSE @,
                             !.inFlight = @ + 1,
                             !.calls = Append(@, Circumstance)]
         /\ loadingStatus' = "uploading"

\* The student clicks the modal's submit button.
ClickSubmit ==
    /\ submission.showSaveModal
    /\ loadingStatus # "uploading"
    /\ submission.studentName
    /\ HandleSubmitToForm(submission.studentName, submission.feedbackTimerId,
                          submission.timers)
    /\ UNCHANGED <<generationVars, probe, vocab, assessment, repair, calls, form, session>>

\* An auto-submit timer fires: its callback calls handleSubmitToForm when
\* the name it captured is non-empty.
TimerFires ==
    /\ \E t \in submission.timers :
        HandleSubmitToForm(t.studentName, t.feedbackTimerId, submission.timers \ {t})
    /\ UNCHANGED <<generationVars, probe, vocab, assessment, repair, calls, form, session>>

\* A submitToGoogleForm call resolves: formSubmitted, the modal closes.
SendResolves ==
    /\ submission.inFlight > 0
    /\ submission' = [submission EXCEPT !.inFlight = @ - 1,
                                        !.formSubmitted = TRUE,
                                        !.showSaveModal = FALSE]
    /\ loadingStatus' = "idle"
    /\ UNCHANGED <<generationVars, probe, vocab, assessment, repair, calls, form, session>>

\* A submitToGoogleForm call throws: the alert; finally.
SendRejects ==
    /\ submission.inFlight > 0
    /\ submission' = [submission EXCEPT !.inFlight = @ - 1]
    /\ loadingStatus' = "idle"
    /\ UNCHANGED <<generationVars, probe, vocab, assessment, repair, calls, form, session>>

\* The student closes the modal.
CloseSaveModal ==
    /\ submission.showSaveModal
    /\ submission' = [submission EXCEPT !.showSaveModal = FALSE]
    /\ UNCHANGED <<loadingStatus, generationVars, probe, vocab, assessment, repair, calls, form, session>>

\* The student opens the modal from the result bar, shown until the form
\* is submitted.
OpenSaveModal ==
    /\ ~submission.formSubmitted
    /\ ~submission.showSaveModal
    /\ submission' = [submission EXCEPT !.showSaveModal = TRUE]
    /\ UNCHANGED <<loadingStatus, generationVars, probe, vocab, assessment, repair, calls, form, session>>

NextSubmission ==
    \/ TypeName
    \/ TypeFeedback
    \/ ClickSubmit
    \/ TimerFires
    \/ SendResolves
    \/ SendRejects
    \/ CloseSaveModal
    \/ OpenSaveModal

SpecSubmission == InitSubmission /\ [][NextSubmission]_vars

----------------------------------------------------------------------------
(* The validation of one question on its own: any section type, any        *)
(* options array of up to MaxOptions texts, any correctAnswer, the pass    *)
(* run once and then once more over its own result.                        *)

MaxOptions == 3
MaxPasses == 2

\* The texts an option or a correctAnswer may be: empty (""; for a
\* correctAnswer also undefined), blank, or a word in either case, with
\* surrounding space, or with a longer word it is a prefix of.
OptionTexts ==
    { <<>>, <<" ">>, <<"a">>, <<"A">>, <<"a", " ">>, <<"a", "b">>, <<"b">> }

RepairQuestions ==
    { MkQuestion(ShortText, opts, answer, 0) :
        opts \in SeqsOf(OptionTexts, 0..MaxOptions), answer \in OptionTexts }

InitRepair ==
    /\ InitPipeline
    /\ session = NoSession
    /\ form = NoForm
    /\ calls = NoCalls
    /\ probe = NoProbe
    /\ vocab = NoVocab
    /\ assessment = NoAssessment
    /\ submission = NoSubmission
    /\ \E type \in ExerciseType, question \in RepairQuestions :
        repair = [NoRepair EXCEPT !.type = type, !.question = question,
                                  !.result = question]

\* The body of content.sections.forEach for the question's section: the
\* questions of a section that needs validation go through the pass.
RepairQuestion ==
    /\ repair.passes < MaxPasses
    /\ \E outcome \in QuestionOutcomes(repair.type, repair.result) :
        repair' = [repair EXCEPT !.result = outcome, !.passes = @ + 1]
    /\ UNCHANGED <<pipelineVars, probe, vocab, assessment, submission, calls, form, session>>

NextRepair == RepairQuestion

SpecRepair == InitRepair /\ [][NextRepair]_vars

----------------------------------------------------------------------------
(* The App in teacher mode around its asynchronous calls: generateExercises *)
(* as a promise that returns or throws, the video analysis of the form,     *)
(* the upload of the worksheet to Drive.  Each call sets loadingStatus when *)
(* it starts and sets it to idle when it settles.                           *)

MaxGens == 3
MaxUploads == 2

InitApp ==
    /\ InitPipeline
    /\ session = NoSession
    /\ form = NoForm
    /\ probe = NoProbe
    /\ vocab = NoVocab
    /\ assessment = NoAssessment
    /\ submission = NoSubmission
    /\ repair = NoRepair
    /\ calls = NoCalls

\* The handleGenerate calls whose generateExercises is in flight.
GensInFlight(gens) == {k \in 1..Len(gens) : gens[k].st \in {"content", "images"}}

\* InputForm.handleVideoUpload up to its await; the upload button is
\* disabled while analyzingVideo or loadingStatus is not idle.
HandleVideoUpload ==
    /\ ~calls.video
    /\ loadingStatus = "idle"
    /\ calls' = [calls EXCEPT !.video = TRUE]
    /\ loadingStatus' = "analyzing_video"
    /\ UNCHANGED <<generationVars, probe, vocab, assessment, submission, repair, form, session>>

\* analyzeVideoForPreferences settles: the finally block of handleVideoUpload.
VideoSettles ==
    /\ calls.video
    /\ calls' = [calls EXCEPT !.video = FALSE]
    /\ loadingStatus' = "idle"
    /\ UNCHANGED <<generationVars, probe, vocab, assessment, submission, repair, form, session>>

\* App.handleSaveExerciseToDrive up to its await; the button is in the
\* action bar of a displayed content, disabled while uploading.
HandleSaveExerciseToDrive ==
    /\ content.present
    /\ loadingStatus # "uploading"
    /\ calls.uploads < MaxUploads
    /\ calls' = [calls EXCEPT !.uploads = @ + 1]
    /\ loadingStatus' = "uploading"
    /\ UNCHANGED <<generationVars, probe, vocab, assessment, submission, repair, form, session>>

\* uploadToDrive settles: the finally block of handleSaveExerciseToDrive.
UploadSettles ==
    /\ calls.uploads > 0
    /\ calls' = [calls EXCEPT !.uploads = @ - 1]
    /\ loadingStatus' = "idle"
    /\ UNCHANGED <<generationVars, probe, vocab, assessment, submission, repair, form, session>>

\* App.handleGenerate up to its await, from the form's button or from the
\* regenerate button of the action bar: both are disabled unless
\* loadingStatus is idle.
StartGeneration ==
    /\ loadingStatus = "idle"
    /\ \/ preferences.selectedTypes # {}
       \/ content.present
    /\ Len(calls.gens) < MaxGens
    /\ loadingStatus' = "generating_content"
    /\ error' = ""
    /\ content' = NoContent
    /\ calls' = [calls EXCEPT
                    !.gens = Append(@, [st |-> "content",
                                        overlapped |-> GensInFlight(calls.gens)]),
                    !.shown = 0]
    /\ UNCHANGED <<preferences, callVars, probe, vocab, assessment, submission, repair, form, session>>

\* Call k reaches the image fan-out: onStatusUpdate('generating_images').
StatusUpdate(k) ==
    /\ calls.gens[k].st = "content"
    /\ calls' = [calls EXCEPT !.gens[k].st = "images"]
    /\ loadingStatus' = "generating_images"
    /\ UNCHANGED <<generationVars, probe, vocab, assessment, submission, repair, form, session>>

\* generateExercises of call k returns: setContent(result), then finally.
GenerationReturns(k) ==
    /\ k \in GensInFlight(calls.gens)
    /\ calls' = [calls EXCEPT !.gens[k].st = "returned", !.shown = k]
    /\ content' = Content(<<>>)
    /\ loadingStatus' = "idle"
    /\ UNCHANGED <<preferences, error, callVars, probe, vocab, assessment, submission, repair, form, session>>

\* generateExercises of call k throws: setError, then finally.
GenerationThrows(k) ==
    /\ k \in GensInFlight(calls.gens)
    /\ calls' = [calls EXCEPT !.gens[k].st = "thrown"]
    /\ error' = GenerateFailedMessage
    /\ loadingStatus' = "idle"
    /\ UNCHANGED <<preferences, content, callVars, probe, vocab, assessment, submission, repair, form, session>>

NextApp ==
    \/ HandleVideoUpload
    \/ VideoSettles
    \/ HandleSaveExerciseToDrive
    \/ UploadSettles
    \/ StartGeneration
    \/ \E k \in 1..Len(calls.gens) : StatusUpdate(k)
    \/ \E k \in 1..Len(calls.gens) : GenerationReturns(k)
    \/ \E k \in 1..Len(calls.gens) : GenerationThrows(k)

SpecApp == InitApp /\ [][NextApp]_vars

----------------------------------------------------------------------------
(* The preferences form and the two buttons that start a generation: the    *)
(* type toggles, the question count field with its spinner buttons, the     *)
(* form's generate button and the regenerate button of the action bar.      *)
(* A text is a sequence of characters.                                      *)

MaxQuestionCount == 20
BlurQuestionCount == 5

Digits == <<"0", "1", "2", "3", "4", "5", "6", "7", "8", "9">>

DigitValue(c) == (CHOOSE d \in 1..10 : Digits[d] = c) - 1

\* /^\d+$/.test(value)
IsDigits(value) ==
    /\ Len(value) > 0
    /\ \A i \in 1..Len(value) : \E d \in 1..10 : Digits[d] = value[i]

\* parseInt of a text of digits
RECURSIVE ParseInt(_)
ParseInt(value) ==
    IF value = <<>> THEN 0
    ELSE 10 * ParseInt(SubSeq(value, 1, Len(value) - 1)) + DigitValue(value[Len(value)])

\* Number.prototype.toString of a natural number
RECURSIVE NumberToString(_)
NumberToString(n) ==
    IF n < 10 THEN <<Digits[n + 1]>>
    ELSE NumberToString(n \div 10) \o <<Digits[(n % 10) + 1]>>

\* What the teacher may type into the question count field.
CountTexts ==
    { <<>>, <<"x">>, <<"0">>, <<"1">>, <<"0", "7">>, <<"2", "0">>, <<"2", "1">> }

InitForm ==
    /\ InitPipeline
    /\ session = NoSession
    /\ probe = NoProbe
    /\ vocab = NoVocab
    /\ assessment = NoAssessment
    /\ submission = NoSubmission
    /\ repair = NoRepair
    /\ calls = NoCalls
    /\ form = NoForm

\* handleChange('questionCount', n), and the effect that follows a change
\* of preferences.questionCount: the input shows the new count.
SetQuestionCount(n, input, err) ==
    /\ preferences' = [preferences EXCEPT !.questionCount = n]
    /\ form' = [questionCountInput |->
                    IF n # preferences.questionCount THEN NumberToString(n) ELSE input,
                questionCountError |-> err]

\* InputForm.toggleType
ToggleType(type) ==
    /\ preferences' = [preferences EXCEPT !.selectedTypes =
                          IF type \in @ THEN @ \ {type} ELSE @ \cup {type}]
    /\ UNCHANGED <<loadingStatus, content, error, form>>
    /\ UNCHANGED <<callVars, probe, vocab, assessment, submission, repair, calls, session>>

\* InputForm.handleQuestionCountChange
HandleQuestionCountChange(value) ==
    /\ IF value = <<>>
       THEN /\ form' = [questionCountInput |-> <<>>, questionCountError |-> FALSE]
            /\ UNCHANGED preferences
       ELSE IF ~IsDigits(value)
       THEN /\ form' = [form EXCEPT !.questionCountError = TRUE]
            /\ UNCHANGED preferences
       ELSE IF ParseInt(value) = 0 \/ ParseInt(value) > MaxQuestionCount
       THEN /\ form' = [questionCountInput |-> value, questionCountError |-> TRUE]
            /\ UNCHANGED preferences
       ELSE SetQuestionCount(ParseInt(value), value, FALSE)
    /\ UNCHANGED <<loadingStatus, content, error>>
    /\ UNCHANGED <<callVars, probe, vocab, assessment, submission, repair, calls, session>>

\* InputForm.handleIncrement; its button is disabled at 20 and above.
HandleIncrement ==
    /\ preferences.questionCount < MaxQuestionCount
    /\ SetQuestionCount(preferences.questionCount + 1,
                        NumberToString(preferences.questionCount + 1), FALSE)
    /\ UNCHANGED <<loadingStatus, content, error>>
    /\ UNCHANGED <<callVars, probe, vocab, assessment, submission, repair, calls, session>>

\* InputForm.handleDecrement; its button is disabled at 1 and below.
HandleDecrement ==
    /\ preferences.questionCount > 1
    /\ SetQuestionCount(preferences.questionCount - 1,
                        NumberToString(preferences.questionCount - 1), FALSE)
    /\ UNCHANGED <<loadingStatus, content, error>>
    /\ UNCHANGED <<callVars, probe, vocab, assessment, submission, repair, calls, session>>

\* onBlur of the question count field
QuestionCountBlur ==
    /\ IF form.questionCountInput = <<>> \/ preferences.questionCount < 1
       THEN SetQuestionCount(BlurQuestionCount, NumberToString(BlurQuestionCount), FALSE)
       ELSE /\ form' = [form EXCEPT !.questionCountInput =
                           NumberToString(preferences.questionCount)]
            /\ UNCHANGED preferences
    /\ UNCHANGED <<loadingStatus, content, error>>
    /\ UNCHANGED <<callVars, probe, vocab, assessment, submission, repair, calls, session>>

\* App.handleGenerate up to its await: generateExercises(preferences, ...)
\* is called with the preferences as they are.
FormHandleGenerate ==
    /\ loadingStatus' = "generating_content"
    /\ error' = ""
    /\ content' = NoContent
    /\ UNCHANGED preferences

\* InputForm.handleSubmit, behind the generate button (disabled while
\* loading, without a selected type, or with a questionCountError).
HandleSubmit ==
    /\ loadingStatus = "idle"
    /\ preferences.selectedTypes # {}
    /\ ~form.questionCountError
    /\ IF preferences.questionCount < 1 \/ preferences.questionCount > MaxQuestionCount
       THEN /\ form' = [form EXCEPT !.questionCountError = TRUE]
            /\ UNCHANGED <<preferences, loadingStatus, content, error>>
       ELSE /\ form' = [form EXCEPT !.questionCountError = FALSE]
            /\ FormHandleGenerate
    /\ UNCHANGED <<callVars, probe, vocab, assessment, submission, repair, calls, session>>

\* The regenerate button of the action bar of a displayed content.
Regenerate ==
    /\ content.present
    /\ loadingStatus = "idle"
    /\ FormHandleGenerate
    /\ UNCHANGED form
    /\ UNCHANGED <<callVars, probe, vocab, assessment, submission, repair, calls, session>>

\* generateExercises settles: setContent or setError, then finally.
FormGenerationSettles ==
    /\ loadingStatus = "generating_content"
    /\ \E returned \in BOOLEAN :
        IF returned
        THEN content' = Content(<<>>) /\ UNCHANGED error
        ELSE error' = GenerateFailedMessage /\ UNCHANGED content
    /\ loadingStatus' = "idle"
    /\ UNCHANGED <<preferences, form>>
    /\ UNCHANGED <<callVars, probe, vocab, assessment, submission, repair, calls, session>>

NextForm ==
    \/ \E type \in ExerciseType : ToggleType(type)
    \/ \E value \in CountTexts : HandleQuestionCountChange(value)
    \/ HandleIncrement
    \/ HandleDecrement
    \/ QuestionCountBlur
    \/ HandleSubmit
    \/ Regenerate
    \/ FormGenerationSettles

SpecForm == InitForm /\ [][NextForm]_vars

----------------------------------------------------------------------------
(* The App with a worksheet on display, in teacher or in student mode: the  *)
(* answers selected, the pronunciation results of the Speaking questions,   *)
(* the submission and its score.                                            *)

\* The pronunciationScore values evaluatePronunciation may return.
PronunciationScores == {0, 100}

\* The questions of a worksheet: two options with either as correctAnswer,
\* or a Speaking question, without options.
ChoiceQuestions ==
    { MkQuestion(ShortText, <<<<"a">>, <<"b">>>>, answer, 0) :
        answer \in {<<"a">>, <<"b">>} }
SpeakingQuestions == { MkQuestion(ShortText, <<>>, <<"a">>, 0) }

\* The worksheets: one or two sections of one or two questions.
Worksheets ==
    SeqsOf({ MkSection(GRAMMAR, FALSE, <<>>, qs) : qs \in SeqsOf(ChoiceQuestions, 1..2) }
           \cup { MkSection(SPEAKING, FALSE, <<>>, qs) : qs \in SeqsOf(SpeakingQuestions, 1..1) },
           1..2)

InitScore ==
    /\ preferences = DefaultPreferences
    /\ loadingStatus = "idle"
    /\ \E secs \in Worksheets : content = Content(secs)
    /\ error = ""
    /\ pc = "idle"
    /\ textRetry = NoFrame
    /\ response = <<>>
    /\ sections = <<>>
    /\ imageTasks = <<>>
    /\ audioTasks = <<>>
    /\ audioLoop = NoLoop
    /\ genResult = NoResult
    /\ form = NoForm
    /\ calls = NoCalls
    /\ repair = NoRepair
    /\ probe = NoProbe
    /\ vocab = NoVocab
    /\ assessment = NoAssessment
    /\ submission = NoSubmission
    /\ \E isStudentMode \in BOOLEAN :
        session = [NoSession EXCEPT !.isStudentMode = isStudentMode]

\* The keys of the questions of the displayed worksheet.
QuestionKeys ==
    UNION { {<<s, q>> : q \in 1..Len(content.sections[s].questions)} :
            s \in 1..Len(content.sections) }

\* handleAnswerSelect of a render in which isSubmitted has the given value:
\* the userAnswers after its functional update.
HandleAnswerSelect(isSubmitted, key, option) ==
    IF isSubmitted
    THEN session.userAnswers
    ELSE [k \in DOMAIN session.userAnswers \cup {key} |->
             IF k = key THEN option ELSE session.userAnswers[k]]

\* userAnswers[key] === correctAnswer; an unanswered key reads undefined.
IsCorrect(userAnswers, key) ==
    /\ key \in DOMAIN userAnswers
    /\ userAnswers[key] = QuestionAt(content.sections, key).correctAnswer

\* userAnswers[key] as a condition: answered with a non-empty string.
IsAnswered(userAnswers, key) ==
    /\ key \in DOMAIN userAnswers
    /\ userAnswers[key] # <<>>

\* The student or the teacher clicks an option of a question.
OptionClick ==
    /\ content.present
    /\ ~session.isSubmitted
    /\ \E key \in QuestionKeys :
        \E i \in 1..Len(QuestionAt(content.sections, key).options) :
            session' = [session EXCEPT !.userAnswers =
                HandleAnswerSelect(session.isSubmitted, key,
                                   QuestionAt(content.sections, key).options[i])]
    /\ UNCHANGED <<pipelineVars, probe, vocab, assessment, submission, repair, calls, form>>

\* The record button of a Speaking question is released: onstop calls
\* evaluateRecording, which awaits evaluatePronunciation.
EvaluateRecording ==
    /\ content.present
    /\ ~session.isSubmitted
    /\ \E key \in Range(Positions(content.sections, {SPEAKING})) :
        /\ \A e \in session.evaluations : e.key # key
        /\ session' = [session EXCEPT !.evaluations =
               @ \cup {[key |-> key, isSubmitted |-> session.isSubmitted]}]
    /\ UNCHANGED <<pipelineVars, probe, vocab, assessment, submission, repair, calls, form>>

\* evaluatePronunciation resolves: onSelect(`Score: ${pronunciationScore}`)
EvaluationResolves ==
    /\ \E e \in session.evaluations, score \in PronunciationScores :
        session' = [session EXCEPT
            !.evaluations = @ \ {e},
            !.userAnswers = HandleAnswerSelect(e.isSubmitted, e.key,
                                <<"S", "c", "o", "r", "e", ":", " ">>
                                \o NumberToString(score))]
    /\ UNCHANGED <<pipelineVars, probe, vocab, assessment, submission, repair, calls, form>>

\* evaluatePronunciation throws: the alert.
EvaluationRejects ==
    /\ \E e \in session.evaluations :
        session' = [session EXCEPT !.evaluations = @ \ {e}]
    /\ UNCHANGED <<pipelineVars, probe, vocab, assessment, submission, repair, calls, form>>

\* confirmSubmit: the session after it.
ConfirmSubmit ==
    [session EXCEPT
        !.scoreData =
            [present |-> TRUE,
             correct |-> Cardinality({key \in QuestionKeys :
                                        IsCorrect(session.userAnswers, key)}),
             total |-> Cardinality(QuestionKeys)],
        !.isSubmitted = TRUE,
        !.showConfirmModal = FALSE]

\* The submit button (action bar, or the sticky bar in student mode):
\* handleSubmit opens the confirmation modal for a student and submits
\* directly otherwise.
AppHandleSubmit ==
    /\ content.present
    /\ ~session.isSubmitted
    /\ session' =
        IF session.isStudentMode
        THEN [session EXCEPT
                 !.showConfirmModal = TRUE,
                 !.confirmModalData =
                     [present |-> TRUE,
                      correct |-> Cardinality({key \in QuestionKeys :
                                                 IsAnswered(session.userAnswers, key)}),
                      total |-> Cardinality(QuestionKeys)]]
        ELSE ConfirmSubmit
    /\ UNCHANGED <<pipelineVars, probe, vocab, assessment, submission, repair, calls, form>>

\* The confirm button of the confirmation modal.
ConfirmSubmitClick ==
    /\ session.showConfirmModal
    /\ content.present
    /\ session' = ConfirmSubmit
    /\ UNCHANGED <<pipelineVars, probe, vocab, assessment, submission, repair, calls, form>>

\* The other button of the confirmation modal.
CancelConfirm ==
    /\ session.showConfirmModal
    /\ session' = [session EXCEPT !.showConfirmModal = FALSE]
    /\ UNCHANGED <<pipelineVars, probe, vocab, assessment, submission, repair, calls, form>>

NextScore ==
    \/ OptionClick
    \/ EvaluateRecording
    \/ EvaluationResolves
    \/ EvaluationRejects
    \/ AppHandleSubmit
    \/ ConfirmSubmitClick
    \/ CancelConfirm

SpecScore == InitScore /\ [][NextScore]_vars

----------------------------------------------------------------------------
(* Properties *)

\* The <<section, question>> positions of a sections array.
AllPositions(secs) == Positions(secs, ExerciseType)

\* The number of times x occurs in the sequence seq.
Count(seq, x) == Cardinality({i \in 1..Len(seq) : seq[i] = x})

SameMultiset(a, b) ==
    /\ Len(a) = Len(b)
    /\ \A x \in Range(a) \cup Range(b) : Count(a, x) = Count(b, x)

\* C1: in the content generateExercises returns, every question of a
\* Listening, Reading, Vocabulary or Grammar section that has options has a
\* correctAnswer identical to one of them.
C1_AnswerAmongOptions ==
    genResult.kind = "returned" =>
        \A pos \in Range(AllPositions(sections)) :
            LET question == QuestionAt(sections, pos)
            IN  (needsValidation(sections[pos[1]].type) /\ question.options # <<>>)
                    => question.correctAnswer \in Range(question.options)

\* Every question that needs enrichment has had its image task settled and
\* its audio task left by the loop.
EnrichmentFinished ==
    /\ Len(imageTasks) = Len(Positions(sections, {VOCABULARY, LISTENING}))
    /\ \A t \in 1..Len(imageTasks) :
           imageTasks[t].result # "pending" /\ imageTasks[t].frame.st = "none"
    /\ Len(audioTasks) = Len(Positions(sections, {LISTENING}))
    /\ \A t \in 1..Len(audioTasks) : audioTasks[t].result # "pending"
    /\ audioLoop.frame.st = "none"

C3_EnrichmentFailuresSwallowed ==
    /\ genResult.kind = "thrown" => (imageTasks = <<>> /\ audioTasks = <<>>)
    /\ pc \in {"images", "audio_delay", "audio_wait", "audio_call"} =>
           genResult.kind = "none"
    /\ genResult.kind = "returned" =>
           /\ EnrichmentFinished
           /\ \A t \in 1..Len(imageTasks) :
                  imageTasks[t].result = "undefined" =>
                      QuestionAt(sections, imageTasks[t].pos).questionImage = ""
           /\ \A t \in 1..Len(audioTasks) :
                  audioTasks[t].result = "undefined" =>
                      QuestionAt(sections, audioTasks[t].pos).audioData = 0

\* C3 witness: a returned content whose first image and first audio failed
\* and whose second image and second audio were stored.
C3_Witness ==
    /\ genResult.kind = "returned"
    /\ Len(audioTasks) = 2
    /\ imageTasks[1].result = "undefined"
    /\ imageTasks[2].result = "image"
    /\ QuestionAt(sections, imageTasks[2].pos).questionImage # ""
    /\ audioTasks[1].result = "undefined"
    /\ audioTasks[2].result = "stored"
    /\ QuestionAt(sections, audioTasks[2].pos).audioData > 0

AllRetryable(log) == \A i \in 1..Len(log) : log[i] = "retryable"

\* C4: withRetry with retry limit r, on a function that fails retryably k
\* times and then succeeds, k < r: it does not throw before the function
\* succeeds, it returns the function's value, and the function has been
\* invoked k + 1 times.
C4_RetryThenSuccess ==
    /\ (probe.frame.st = "thrown" /\ AllRetryable(probe.log)) =>
           Len(probe.log) > probe.frame.retries
    /\ probe.frame.st = "returned" =>
           /\ probe.log[Len(probe.log)] = "ok"
           /\ AllRetryable(SubSeq(probe.log, 1, Len(probe.log) - 1))
           /\ probe.frame.calls = Len(probe.log)
           /\ probe.value \in ProbeValues

\* C4 witness: r = 3, two retryable failures, then success.
C4_Witness ==
    /\ probe.frame.st = "returned"
    /\ probe.frame.retries = 3
    /\ probe.log = <<"retryable", "retryable", "ok">>
    /\ probe.frame.calls = 3

\* C5: when the function's first failure is not retryable, withRetry has
\* invoked it once, has not slept, and throws the error the function threw.
C5_FatalNotRetried ==
    (probe.log # <<>> /\ probe.log[1] = "fatal") =>
        /\ probe.frame.st = "thrown"
        /\ probe.frame.calls = 1
        /\ probe.frame.delays = <<>>
        /\ probe.thrown = probe.rejected

\* C5 witness: a non-retryable failure under a retry limit that would allow
\* retries.
C5_Witness ==
    /\ probe.log = <<"fatal">>
    /\ probe.frame.retries >= 1
    /\ probe.frame.st = "thrown"

\* C6 as stated: at most 3 invocations for the text request, at most 2 for
\* an image request.
C6_Original ==
    /\ textRetry.calls <= 3
    /\ \A t \in 1..Len(imageTasks) : imageTasks[t].frame.calls <= 2

\* C6 amended: the model call is invoked at most 4 times for one text
\* request (3 retries after the first attempt) and at most 3 times for one
\* image request (2 retries after the first attempt).
C6_CallsBounded ==
    /\ textRetry.calls <= 4
    /\ \A t \in 1..Len(imageTasks) : imageTasks[t].frame.calls <= 3

\* C6 witness: an image request in its third invocation, after a text
\* request that succeeded.
C6_Witness ==
    /\ pc = "images"
    /\ \E t \in 1..Len(imageTasks) :
           imageTasks[t].frame.calls = 3 /\ imageTasks[t].frame.st = "calling"

\* C7: from the moment the audio tasks are built, the audioData of a
\* Listening question is unset or at least max(15000, 100 * L) long, L the
\* length of its narration script; the loop makes at most maxRetries + 1
\* attempts for a task; a task the loop left without audio has audioData
\* unset.
C7_AudioLongEnough ==
    (pc \in {"audio_delay", "audio_wait", "audio_call"} \/ genResult.kind = "returned") =>
        /\ audioLoop.retryCount <= 3
        /\ \A t \in 1..Len(audioTasks) :
               LET question == QuestionAt(sections, audioTasks[t].pos)
                   L == Len(AudioText(question))
               IN  /\ audioTasks[t].audioText = AudioText(question)
                   /\ question.audioData = 0
                          \/ (question.audioData >= 15000 /\ question.audioData >= 100 * L)
                   /\ audioTasks[t].result # "stored" => question.audioData = 0

\* C7 witness: a returned Listening question whose script is longer than
\* 150 characters, with an audio of the least accepted length, where the
\* model's response carried an audioData of its own.
C7_Witness ==
    /\ genResult.kind = "returned"
    /\ \E t \in 1..Len(audioTasks) :
           /\ Len(audioTasks[t].audioText) > 150
           /\ QuestionAt(sections, audioTasks[t].pos).audioData
                  = 100 * Len(audioTasks[t].audioText)
           /\ QuestionAt(response, audioTasks[t].pos).audioData # 0

\* C8: for every Listening question with options, the shuffled options are
\* a permutation of the options the model returned, and correctAnswer is
\* one of them.
C8_ShufflePermutes ==
    genResult.kind = "returned" =>
        \A pos \in Range(Positions(sections, {LISTENING})) :
            LET question == QuestionAt(sections, pos)
            IN  /\ SameMultiset(question.options, QuestionAt(response, pos).options)
                /\ question.options # <<>> =>
                       question.correctAnswer \in Range(question.options)

\* C9: no Listening section of the returned content has a contextText.
C9_NoListeningContext ==
    genResult.kind = "returned" =>
        \A s \in 1..Len(sections) :
            sections[s].type = LISTENING => ~sections[s].hasContextText

\* C10: when the text request has failed on every attempt with a retryable
\* error, generateExercises throws only after the retries are exhausted and
\* throws the overloaded message.
C10_OverloadedMessage ==
    (genResult.kind = "thrown" /\ textRetry.st = "thrown"
         /\ IsRetryable(genResult.cause)) =>
        /\ textRetry.calls = TextRetries + 1
        /\ genResult.error = NewError(OverloadedMessage)

\* An invalid-credential error: code or status 401, or a message containing
\* 'API_KEY'.
IsInvalidCredential(e) ==
    \/ OrElse(e.code, e.inner.code) = "n401"
    \/ OrElse(e.status, e.inner.status) = "n401"
    \/ Includes(CatchErrorMessage(e), "API_KEY")

\* C11: when the first attempt of the text request fails with an
\* invalid-credential error, withRetry does not sleep: the model call has
\* been invoked once, and generateExercises throws the invalid-API-key
\* message.
C11_CredentialFailsFast ==
    (/\ textRetry.st \in {"sleeping", "thrown"}
     /\ textRetry.attempt = 0
     /\ IsInvalidCredential(textRetry.error)) =>
        /\ textRetry.st = "thrown"
        /\ textRetry.calls = 1
        /\ textRetry.delays = <<>>
        /\ genResult.kind = "thrown"
        /\ genResult.error = NewError(InvalidKeyMessage)

\* C12: when the text of the response is not valid JSON, generateExercises
\* throws the failed-to-parse error: the text request is not issued again,
\* no image or audio task exists, nothing is returned and the App shows no
\* content.
C12_ParseFailureIsFatal ==
    (genResult.kind = "thrown" /\ genResult.cause = NewError(ParseFailedMessage)) =>
        /\ genResult.error = NewError(ParseFailedMessage)
        /\ pc \in {"thrown", "idle"}
        /\ textRetry = NoFrame
        /\ imageTasks = <<>>
        /\ audioTasks = <<>>
        /\ sections = <<>>
        /\ ~content.present

\* C12 witness: the App after a generation that failed to parse.
C12_Witness ==
    /\ pc = "idle"
    /\ genResult.kind = "thrown"
    /\ genResult.error = NewError(ParseFailedMessage)
    /\ error = GenerateFailedMessage

\* The words of a vocabulary string: its comma-separated parts, trimmed,
\* without the empty ones.
WordsOf(text) == TrimmedNonEmpty(SplitComma(text))

\* Every element occurs in a at most as often as in b.
SubMultiset(a, b) == \A x \in Range(a) : Count(a, x) <= Count(b, x)

\* C13: selectRandomVocabulary(list, N) returns at most N words; for a list
\* of at most N words it returns exactly these words, in order; for a longer
\* list it returns exactly N words, a sub-multiset of the list's words.  (A
\* list without a word that yields the placeholder is C14's case.)
C13_VocabularySample ==
    vocab.done =>
        LET words == WordsOf(vocab.list)
            out == WordsOf(vocab.result)
        IN  \/ words = <<>> /\ vocab.result = MixedVocabulary
            \/ /\ Len(out) <= vocab.count
               /\ Len(words) <= vocab.count => out = words
               /\ Len(words) > vocab.count =>
                      Len(out) = vocab.count /\ SubMultiset(out, words)

\* C13 witness: two of the three words of "a,a,b", drawn so that the result
\* is not a prefix of the list.
C13_Witness ==
    /\ vocab.done
    /\ vocab.list = <<"a", ",", "a", ",", "b">>
    /\ vocab.count = 2
    /\ vocab.result = <<"b", ",", " ", "a">>

\* C14: selectRandomVocabulary returns "Mixed vocabulary" for every list
\* that holds no word.
C14_Placeholder ==
    (vocab.done /\ WordsOf(vocab.list) = <<>>) => vocab.result = MixedVocabulary

\* C15: the wordFeedback evaluatePronunciation returns holds each word of
\* the target phrase exactly once, compared without case, and every item
\* has a status of the enum and a score from 0 to 100.
C15_FeedbackCoversPhrase ==
    assessment.st = "returned" =>
        LET words == SplitWords(assessment.targetPhrase)
            feedback == assessment.wordFeedback
        IN  /\ \A i \in 1..Len(words) :
                   Cardinality({k \in 1..Len(feedback) :
                       ToLowerCase(feedback[k].word) = ToLowerCase(words[i])}) = 1
            /\ \A k \in 1..Len(feedback) :
                   /\ feedback[k].status \in {"correct", "partial", "incorrect"}
                   /\ feedback[k].score \in 0..100

\* C16: the returned content has exactly one section for each selected
\* type and no other section, every section has questionCount questions,
\* and every Listening question has 4 options.
C16_ContentMatchesPreferences ==
    genResult.kind = "returned" =>
        /\ Len(sections) = Cardinality(preferences.selectedTypes)
        /\ \A type \in preferences.selectedTypes :
               \E s \in 1..Len(sections) : sections[s].type = type
        /\ \A s \in 1..Len(sections) :
               /\ Len(sections[s].questions) = preferences.questionCount
               /\ sections[s].type = LISTENING =>
                      \A q \in 1..Len(sections[s].questions) :
                          Len(sections[s].questions[q].options) = 4

\* C17: no submitToGoogleForm call starts while another is in flight or
\* after one has succeeded.
C17_SentAtMostOnce ==
    \A k \in 1..Len(submission.calls) : submission.calls[k] = "first"

\* The options as spoken: "A. <options[1]>. B. <options[2]>. ..." from the
\* i-th option on.
RECURSIVE SpokenOptions(_, _)
SpokenOptions(options, i) ==
    IF i > Len(options) THEN <<>>
    ELSE <<(<<"A", "B", "C", "D">>)[i], ".", " ">> \o options[i] \o <<".">>
         \o (IF i < Len(options) THEN <<" ">> ELSE <<>>)
         \o SpokenOptions(options, i + 1)

\* s ends with suffix.
EndsWith(s, suffix) ==
    /\ Len(suffix) <= Len(s)
    /\ SubSeq(s, Len(s) - Len(suffix) + 1, Len(s)) = suffix

\* C18: the script of every audio task ends with the options of its
\* question in the order of the options array the content holds, the i-th
\* under the i-th letter.
C18_NarrationFollowsDisplay ==
    \A t \in 1..Len(audioTasks) :
        LET question == QuestionAt(sections, audioTasks[t].pos)
        IN  EndsWith(audioTasks[t].audioText, SpokenOptions(question.options, 1))

\* C18 witness: a returned Listening question with audio whose options were
\* reordered by the shuffle.
C18_Witness ==
    /\ genResult.kind = "returned"
    /\ \E t \in 1..Len(audioTasks) :
           LET question == QuestionAt(sections, audioTasks[t].pos)
           IN  /\ question.options # QuestionAt(response, audioTasks[t].pos).options
               /\ question.audioData > 0

\* The audio tasks whose synthesis request is in flight or backing off.
AudioInFlight(loop, tasks) ==
    {t \in 1..Len(tasks) : loop.i = t /\ loop.frame # NoFrame}

\* C19: a synthesis request is in flight for at most one audio task, every
\* task before it has been left (stored or given up) and none after it has
\* been started; the loop goes from task i to task i+1 only when task i was
\* accepted or had its maxRetries + 1 attempts, and it then waits on the
\* inter-request timer, no request in flight, before the first attempt.
C19_AudioSequential ==
    [][/\ Cardinality(AudioInFlight(audioLoop', audioTasks')) <= 1
       /\ \A t \in AudioInFlight(audioLoop', audioTasks') :
              /\ pc' = "audio_call"
              /\ \A u \in 1..Len(audioTasks') :
                     (audioTasks'[u].result # "pending") <=> (u < t)
       /\ (audioLoop.i > 0 /\ audioLoop'.i = audioLoop.i + 1) =>
              /\ pc = "audio_call" /\ pc' = "audio_delay"
              /\ audioLoop'.frame = NoFrame
              /\ audioLoop'.timer = InterRequestDelay
              /\ \/ audioTasks'[audioLoop.i].result = "stored"
                 \/ /\ audioTasks'[audioLoop.i].result = "undefined"
                    /\ audioLoop.retryCount = maxRetries
       /\ (pc = "audio_delay" /\ pc' # pc) =>
              /\ pc' = "audio_wait"
              /\ audioLoop'.frame = NoFrame
      ]_vars

\* C19 witness: the request of the second audio task is in flight, the
\* first task having been left.
C19_Witness ==
    /\ pc = "audio_call"
    /\ audioLoop.i = 2
    /\ audioLoop.frame # NoFrame
    /\ audioLoop.frame.st = "calling"
    /\ audioTasks[1].result # "pending"

\* C20: while the image requests are awaited every unsettled task has its
\* request issued, and what a task does next (its response taken up, its
\* failure handled, its backoff timer firing) is possible whatever the
\* other tasks are doing; past the await, in the audio loop and at the
\* return, every image task is settled.
C20_ImagesConcurrentThenBarrier ==
    /\ pc = "images" =>
           \A t \in 1..Len(imageTasks) :
               /\ imageTasks[t].result = "pending" =>
                      /\ imageTasks[t].frame.st \in {"calling", "sleeping"}
                      /\ imageTasks[t].frame.calls >= 1
               /\ imageTasks[t].frame.st = "calling" =>
                      /\ ENABLED ImageResolves(t)
                      /\ ENABLED ImageRejects(t)
               /\ imageTasks[t].frame.st = "sleeping" => ENABLED ImageWake(t)
    /\ pc \in {"audio_wait", "audio_call", "audio_delay", "returned"} =>
           \A t \in 1..Len(imageTasks) :
               /\ imageTasks[t].result \in {"image", "undefined"}
               /\ imageTasks[t].frame = NoFrame

\* C20 witness: one image request is backing off while a later task's
\* request, already retried once, is in flight.
C20_Witness ==
    /\ pc = "images"
    /\ \E t, u \in 1..Len(imageTasks) :
           /\ t < u
           /\ imageTasks[t].frame.st = "sleeping"
           /\ imageTasks[u].frame.st = "calling"
           /\ imageTasks[u].frame.calls >= 2

\* The indices of the options that equal the answer after trim+lowercase.
ExactMatches(options, answer) ==
    {i \in 1..Len(options) : normalize(options[i]) = normalize(answer)}

\* The indices of the options that are a prefix of the answer, or the
\* answer of them, after trim+lowercase.
PrefixMatches(options, answer) ==
    {i \in 1..Len(options) :
        \/ StartsWith(normalize(options[i]), normalize(answer))
        \/ StartsWith(normalize(answer), normalize(options[i]))}

\* C21: after one pass over a question with options and a correctAnswer,
\* in a section that is validated, correctAnswer is an option equal to the
\* returned answer after trim+lowercase if there is one, else the first
\* option in a prefix relation with it if there is one, else the first
\* option; the options being those of the array as displayed.
C21_RepairPriority ==
    (/\ repair.passes = 1
     /\ needsValidation(repair.type)
     /\ Len(repair.question.options) > 0
     /\ repair.question.correctAnswer # <<>>) =>
        LET options == repair.result.options
            answer == repair.question.correctAnswer
            exact == ExactMatches(options, answer)
            prefix == PrefixMatches(options, answer)
        IN  IF exact # {}
            THEN \E i \in exact : repair.result.correctAnswer = options[i]
            ELSE IF prefix # {}
            THEN /\ \E i \in prefix : repair.result.correctAnswer = options[i]
                 /\ \A i \in prefix :
                        (\A j \in prefix : i <= j) =>
                            repair.result.correctAnswer = options[i]
            ELSE repair.result.correctAnswer = options[1]

\* C22: no image or audio task exists before validation has run over the
\* parsed sections, and the prompt of every image task is the correctAnswer
\* its question has after validation, one of the question's options
\* whenever the question has options.
C22_ImagesOfRepairedAnswers ==
    /\ pc = "text" => imageTasks = <<>> /\ audioTasks = <<>>
    /\ \A t \in 1..Len(imageTasks) :
           LET question == QuestionAt(sections, imageTasks[t].pos)
           IN  /\ imageTasks[t].prompt = question.correctAnswer
               /\ question.options # <<>> =>
                      imageTasks[t].prompt \in Range(question.options)

\* C23: the n-th backoff sleep of a withRetry call, the one after the n-th
\* failed attempt, lasts 2000, 4000, 8000 ms and 10000 ms from the fourth
\* on; no sleep is longer than 10000 ms or shorter than the one before.
C23_BackoffSchedule ==
    LET delays == probe.frame.delays
    IN  \A n \in 1..Len(delays) :
            /\ delays[n] = (IF n = 1 THEN 2000
                            ELSE IF n = 2 THEN 4000
                            ELSE IF n = 3 THEN 8000
                            ELSE 10000)
            /\ delays[n] <= 10000
            /\ n > 1 => delays[n - 1] <= delays[n]

\* C23 witness: a call that has slept four times, the last sleep capped.
C23_Witness ==
    /\ Len(probe.frame.delays) >= 4
    /\ probe.frame.calls >= 5

\* C24: the content on display is never the result of a generateExercises
\* call that was still in flight when a later generation was started.
C24_EarlierResultDiscarded ==
    \A j \in 1..Len(calls.gens) :
        \A i \in calls.gens[j].overlapped : calls.shown # i

\* C25: whenever handleGenerate calls generateExercises, the preferences it
\* passes have a selected type and a questionCount between 1 and 20.
C25_GeneratesWithValidPreferences ==
    [][(loadingStatus = "idle" /\ loadingStatus' = "generating_content") =>
           /\ preferences'.selectedTypes # {}
           /\ preferences'.questionCount \in 1..20
      ]_vars

\* What post-processing may make of question q of a section of the given
\* type, r being the question as the model returned it.
PostProcessed(type, r, q) ==
    /\ q.questionText = r.questionText
    /\ Len(q.options) = Len(r.options)
    /\ IF type = LISTENING
       THEN SameMultiset(q.options, r.options)
       ELSE q.options = r.options
    /\ ~needsValidation(type) => q.correctAnswer = r.correctAnswer
    /\ type \notin {VOCABULARY, LISTENING} => q.questionImage = r.questionImage
    /\ type # LISTENING => q.audioData = r.audioData
    /\ type = SPEAKING => q = r

\* C26: the sections generateExercises works on are, in number, order and
\* type, the sections the model returned, with the same questions in the
\* same order; a question differs from the returned one at most in the order
\* of its options (Listening), its correctAnswer (validated types), its
\* questionImage (Vocabulary, Listening) and its audioData (Listening); a
\* section differs at most in its contextText (Listening); the questions of
\* a Speaking section are the returned ones.
C26_PostProcessingFrame ==
    /\ Len(sections) > 0 => Len(sections) = Len(response)
    /\ genResult.kind = "returned" => Len(sections) = Len(response)
    /\ \A s \in 1..Len(sections) :
           /\ sections[s].type = response[s].type
           /\ Len(sections[s].questions) = Len(response[s].questions)
           /\ sections[s].type # LISTENING =>
                  /\ sections[s].hasContextText = response[s].hasContextText
                  /\ sections[s].contextText = response[s].contextText
           /\ \A q \in 1..Len(sections[s].questions) :
                  PostProcessed(sections[s].type, response[s].questions[q],
                                sections[s].questions[q])

\* C26 witness: a returned content with a Speaking question beside a
\* question whose correctAnswer was rewritten.
C26_Witness ==
    /\ genResult.kind = "returned"
    /\ \E s, u \in 1..Len(sections) :
           /\ sections[s].type = SPEAKING
           /\ Len(sections[s].questions) > 0
           /\ sections[s].questions[1].correctAnswer
                  \notin Range(sections[s].questions[1].options)
           /\ Len(sections[u].questions) > 0
           /\ sections[u].questions[1].correctAnswer
                  # response[u].questions[1].correctAnswer

\* C27: a generateExercises call in flight ends: it returns or throws.
C27_CallEnds ==
    (pc \notin {"idle", "returned", "thrown"}) ~> (pc \in {"returned", "thrown"})

\* C27 witness: a call that returned although an image request and every
\* attempt at an audio failed.
C27_Witness ==
    /\ pc = "returned"
    /\ \E t \in 1..Len(imageTasks) : imageTasks[t].result = "undefined"
    /\ \E t \in 1..Len(audioTasks) : audioTasks[t].result = "undefined"

\* The generateAudioBase64 calls begun so far for the question of the audio
\* loop: retryCount counts the calls that ended, p tells whether one is open.
AudioCallsBegun(loop, p) ==
    IF p = "audio_call" THEN loop.retryCount + 1 ELSE loop.retryCount

\* The most synthesis requests issued so far for the question of the audio
\* loop: AudioRetries + 1 in each ended call, frame.calls in the open one.
SynthesisRequestsAtMost(loop) ==
    (AudioRetries + 1) * loop.retryCount + loop.frame.calls

\* C28: for one Listening question generateAudioBase64 is called at most 4
\* times, a call issues at most 3 synthesis requests (one per step that
\* raises frame.calls), so at most 12 are issued for the question; each call
\* that ends without an accepted payload raises retryCount by one and stays
\* on the question, and the call that yields an accepted payload (or the
\* fourth call) leaves the question for good.
C28_AudioCallsBounded ==
    [][/\ pc' = "audio_call" =>
              /\ AudioCallsBegun(audioLoop', pc') <= 4
              /\ audioLoop'.frame.calls \in 1..3
              /\ SynthesisRequestsAtMost(audioLoop') <= 12
       /\ (pc = "audio_wait" /\ pc' = "audio_call") =>
              /\ audioLoop'.i = audioLoop.i
              /\ audioLoop'.retryCount = audioLoop.retryCount
              /\ audioLoop'.frame.calls = 1
              /\ audioTasks'[audioLoop.i].result = "pending"
       /\ (pc = "audio_call" /\ pc' = "audio_call") =>
              /\ audioLoop'.i = audioLoop.i
              /\ audioLoop'.retryCount = audioLoop.retryCount
              /\ audioLoop'.frame.calls \in
                     {audioLoop.frame.calls, audioLoop.frame.calls + 1}
       /\ (pc = "audio_call" /\ pc' = "audio_wait") =>
              /\ audioLoop'.i = audioLoop.i
              /\ audioLoop'.retryCount = audioLoop.retryCount + 1
              /\ audioTasks'[audioLoop.i].result = "pending"
       /\ (pc = "audio_call" /\ pc' \notin {"audio_call", "audio_wait"}) =>
              /\ pc' \in {"audio_delay", "returned"}
              /\ audioTasks'[audioLoop.i].result \in {"stored", "undefined"}
              /\ audioTasks'[audioLoop.i].result = "undefined" =>
                     audioLoop.retryCount = maxRetries
              /\ pc' = "audio_delay" => audioLoop'.i = audioLoop.i + 1
       /\ (pc \in {"audio_wait", "audio_call"}
             /\ audioTasks[audioLoop.i].result = "pending"
             /\ audioTasks'[audioLoop.i].result = "stored") =>
              pc' \notin {"audio_wait", "audio_call"} \/ audioLoop'.i # audioLoop.i
      ]_vars

\* C28 witness: the fourth generateAudioBase64 call of a question has its
\* third synthesis request in flight.
C28_Witness ==
    /\ pc = "audio_call"
    /\ audioLoop.retryCount = 3
    /\ audioLoop.frame.calls = 3
    /\ audioLoop.frame.st = "calling"
    /\ SynthesisRequestsAtMost(audioLoop) = 12

\* C29: a pass over a question whose returned correctAnswer is one of its
\* options, string for string, keeps that correctAnswer, and a pass over a
\* question that has been through the pass keeps its correctAnswer.
C29_IdenticalAnswerKept ==
    [][/\ (/\ repair.passes = 0
           /\ needsValidation(repair.type)
           /\ repair.question.correctAnswer \in Range(repair.question.options)) =>
              repair'.result.correctAnswer = repair.question.correctAnswer
       /\ (/\ repair.passes >= 1
           /\ needsValidation(repair.type)) =>
              repair'.result.correctAnswer = repair.result.correctAnswer
      ]_vars

\* C30: the step that submits a worksheet sets the score to correct = the
\* number of questions whose answer at that moment is identical to
\* correctAnswer (an unanswered question is not counted), total = the number
\* of questions, with 0 <= correct <= total; from then on the worksheet
\* stays submitted, the score stays what it is, and no answer is recorded
\* or changed, a pronunciation result that arrives included.
C30_ScoreFixedAtSubmission ==
    [][/\ (~session.isSubmitted /\ session'.isSubmitted) =>
              /\ session'.scoreData.present
              /\ session'.scoreData.correct =
                     Cardinality({i \in 1..Len(AllPositions(content.sections)) :
                         LET key == AllPositions(content.sections)[i]
                         IN  /\ key \in DOMAIN session.userAnswers
                             /\ session.userAnswers[key] =
                                    QuestionAt(content.sections, key).correctAnswer})
              /\ session'.scoreData.total = Len(AllPositions(content.sections))
              /\ session'.scoreData.correct >= 0
              /\ session'.scoreData.correct <= session'.scoreData.total
       /\ session.isSubmitted =>
              /\ session'.isSubmitted
              /\ session'.scoreData = session.scoreData
              /\ session'.userAnswers = session.userAnswers
      ]_vars

====
